---- MODULE Spec2Model ----
(***************************************************************************)
(* The in-memory B-tree map of src/map: Node (map/node.rs) as nested       *)
(* records, the BTreeMap facade (map/mod.rs) as the state machine.         *)
(* Indices are 0-based as in the source; At(s, i) reads position i.        *)
(* The persistent variant of src/tree follows at the end: nodes hold       *)
(* identifiers of their children and live in a storage.                    *)
(***************************************************************************)
EXTENDS Integers, Sequences, FiniteSets, TLC

VARIABLES root, len, degree, panicked, ref, last, twin, storage

vars == <<root, len, degree, panicked, ref, last, twin, storage>>

\* ---------------------------------------------------------------- bounds
MaxKey == 4
MaxLen == 4
MaxDegree == 3
MaxDeepKey == 10

DEFAULT_DEGREE == 2

Keys == 1..MaxKey
\* The value type V is opaque to the tree; it is instantiated with bool.
Vals == BOOLEAN
DeepKeys == 1..MaxDeepKey
Degrees == DEFAULT_DEGREE..MaxDegree
\* What a read through a dangling key reference can yield: any key value,
\* below, inside or above the range of the stored keys.
Garbage == 0..(MaxDeepKey + 1)

\* ----------------------------------------------------- Option and Vec
None == <<>>
Some(x) == <<x>>
Unwrap(o) == o[1]

At(s, i) == s[i + 1]
Take(s, n) == SubSeq(s, 1, n)
Drop(s, n) == SubSeq(s, n + 1, Len(s))
InsertAt(s, i, x) == Take(s, i) \o <<x>> \o Drop(s, i)
RemoveAt(s, i) == Take(s, i) \o Drop(s, i + 1)
SetAt(s, i, x) == [s EXCEPT ![i + 1] = x]
Last(s) == s[Len(s)]
Front(s) == SubSeq(s, 1, Len(s) - 1)

\* ------------------------------------------------------------------ Node
NewNode == [keys |-> <<>>, vals |-> <<>>, children |-> <<>>]

node_len(node) == Len(node.keys)

node_is_empty(node) == Len(node.keys) = 0

is_full(node, t) == Len(node.keys) = 2 * t - 1

is_leaf(node) == Len(node.children) = 0

\* A search that steps over the key it is looking for.
RECURSIVE find_loop_skips_equal(_, _, _, _, _)
find_loop_skips_equal(keys, k, left, right, size) ==
    IF left < right
    THEN IF At(keys, left + (size \div 2)) <= k
         THEN find_loop_skips_equal(keys, k, left + (size \div 2) + 1, right,
                                    right - (left + (size \div 2) + 1))
         ELSE find_loop_skips_equal(keys, k, left, left + (size \div 2),
                                    size \div 2)
    ELSE left

RECURSIVE find_loop(_, _, _, _, _)
find_loop(keys, k, left, right, size) ==
    IF left < right
    THEN LET mid == left + (size \div 2)
         IN  IF At(keys, mid) = k THEN mid
             ELSE IF At(keys, mid) < k
                  THEN find_loop(keys, k, mid + 1, right, right - (mid + 1))
                  ELSE find_loop(keys, k, left, mid, mid - left)
    ELSE left

find_index(node, k) == find_loop(node.keys, k, 0, node_len(node), node_len(node))

RECURSIVE node_get(_, _)
node_get(node, k) ==
    LET idx == find_index(node, k)
    IN  IF idx < node_len(node) /\ At(node.keys, idx) = k
        THEN Some(<<idx, node>>)
        ELSE IF is_leaf(node) THEN None
        ELSE node_get(At(node.children, idx), k)

\* split_child that leaves all the children of an internal child in its left
\* half.
split_child_keeps_children(self, idx, t) ==
    IF is_full(self, t) \/ ~is_full(At(self.children, idx), t)
    THEN [node |-> self, panic |-> TRUE]
    ELSE LET left == At(self.children, idx)
         IN  [node |-> [keys |-> InsertAt(self.keys, idx, At(left.keys, t - 1)),
                        vals |-> InsertAt(self.vals, idx, At(left.vals, t - 1)),
                        children |->
                            InsertAt(SetAt(self.children, idx,
                                           [keys |-> Take(left.keys, t - 1),
                                            vals |-> Take(left.vals, t - 1),
                                            children |-> left.children]),
                                     idx + 1,
                                     [keys |-> Drop(left.keys, t),
                                      vals |-> Drop(left.vals, t),
                                      children |-> <<>>])],
              panic |-> FALSE]

\* split_child that leaves the median in the right half as well.
split_child_copies_median(self, idx, t) ==
    IF is_full(self, t) \/ ~is_full(At(self.children, idx), t)
    THEN [node |-> self, panic |-> TRUE]
    ELSE LET left == At(self.children, idx)
         IN  [node |-> [keys |-> InsertAt(self.keys, idx, At(left.keys, t - 1)),
                        vals |-> InsertAt(self.vals, idx, At(left.vals, t - 1)),
                        children |->
                            InsertAt(SetAt(self.children, idx,
                                           [keys |-> Take(left.keys, t - 1),
                                            vals |-> Take(left.vals, t - 1),
                                            children |->
                                                IF ~is_leaf(left)
                                                THEN Take(left.children, t)
                                                ELSE left.children]),
                                     idx + 1,
                                     [keys |-> Drop(left.keys, t - 1),
                                      vals |-> Drop(left.vals, t - 1),
                                      children |->
                                          IF ~is_leaf(left)
                                          THEN Drop(left.children, t)
                                          ELSE <<>>])],
              panic |-> FALSE]

\* split_child that promotes the key after the median.
split_child_late_median(self, idx, t) ==
    IF is_full(self, t) \/ ~is_full(At(self.children, idx), t)
    THEN [node |-> self, panic |-> TRUE]
    ELSE LET left == At(self.children, idx)
         IN  [node |-> [keys |-> InsertAt(self.keys, idx, At(left.keys, t)),
                        vals |-> InsertAt(self.vals, idx, At(left.vals, t)),
                        children |->
                            InsertAt(SetAt(self.children, idx,
                                           [keys |-> Take(left.keys, t),
                                            vals |-> Take(left.vals, t),
                                            children |->
                                                IF ~is_leaf(left)
                                                THEN Take(left.children, t + 1)
                                                ELSE left.children]),
                                     idx + 1,
                                     [keys |-> Drop(left.keys, t + 1),
                                      vals |-> Drop(left.vals, t + 1),
                                      children |->
                                          IF ~is_leaf(left)
                                          THEN Drop(left.children, t + 1)
                                          ELSE <<>>])],
              panic |-> FALSE]

\* split_child: the new parent, or panic when one of the two asserts fails.
split_child(self, idx, t) ==
    IF is_full(self, t) \/ ~is_full(At(self.children, idx), t)
    THEN [node |-> self, panic |-> TRUE]
    ELSE LET left == At(self.children, idx)
             rvals == Drop(left.vals, t)
             rkeys == Drop(left.keys, t)
             key == At(left.keys, t - 1)
             val == At(left.vals, t - 1)
             rchildren == IF ~is_leaf(left) THEN Drop(left.children, t) ELSE <<>>
             lchildren == IF ~is_leaf(left) THEN Take(left.children, t)
                          ELSE left.children
             left2 == [keys |-> Take(left.keys, t - 1),
                       vals |-> Take(left.vals, t - 1),
                       children |-> lchildren]
             right == [keys |-> rkeys, vals |-> rvals, children |-> rchildren]
         IN  [node |-> [keys |-> InsertAt(self.keys, idx, key),
                        vals |-> InsertAt(self.vals, idx, val),
                        children |-> InsertAt(SetAt(self.children, idx, left2),
                                              idx + 1, right)],
              panic |-> FALSE]

\* A leaf insert that puts a new entry at the end of the leaf.
insert_leaf_appends(node, idx, k, v) ==
    IF idx < node_len(node) /\ k = At(node.keys, idx)
    THEN [node |-> [node EXCEPT !.vals = SetAt(@, idx, v)],
          res |-> Some(At(node.vals, idx)), panic |-> FALSE]
    ELSE [node |-> [node EXCEPT !.keys = Append(@, k), !.vals = Append(@, v)],
          res |-> None, panic |-> FALSE]

\* insert_nonfull at a leaf: swap the value of a key that is there, insert the
\* entry otherwise.
insert_leaf(node, idx, k, v) ==
    IF idx < node_len(node) /\ k = At(node.keys, idx)
    THEN [node |-> [node EXCEPT !.vals = SetAt(@, idx, v)],
          res |-> Some(At(node.vals, idx)), panic |-> FALSE]
    ELSE [node |-> [node EXCEPT !.keys = InsertAt(@, idx, k),
                                !.vals = InsertAt(@, idx, v)],
          res |-> None, panic |-> FALSE]

\* The node once the loop has finished below children[i].
insert_below(node, i, sub) ==
    [node |-> [node EXCEPT !.children = SetAt(@, i, sub.node)],
     res |-> sub.res, panic |-> sub.panic]

RECURSIVE insert_loop(_, _, _, _)

\* A descent that stays left of the promoted median whatever k is.
insert_split_stays_left(sp, idx, k, v, t) ==
    IF sp.panic THEN [node |-> sp.node, res |-> None, panic |-> TRUE]
    ELSE insert_below(sp.node, idx,
                      insert_loop(At(sp.node.children, idx), k, v, t))

\* After split_child(idx): go right of the promoted median when it is < k.
insert_split(sp, idx, k, v, t) ==
    IF sp.panic THEN [node |-> sp.node, res |-> None, panic |-> TRUE]
    ELSE IF At(sp.node.keys, idx) < k
    THEN insert_below(sp.node, idx + 1,
                      insert_loop(At(sp.node.children, idx + 1), k, v, t))
    ELSE insert_below(sp.node, idx,
                      insert_loop(At(sp.node.children, idx), k, v, t))

\* A descent that never splits the child it goes into.
insert_descend_never_splits(node, idx, k, v, t) ==
    insert_below(node, idx, insert_loop(At(node.children, idx), k, v, t))

\* insert_nonfull at an internal node: no comparison of k with keys[idx].
insert_descend(node, idx, k, v, t) ==
    IF is_full(At(node.children, idx), t)
    THEN insert_split(split_child(node, idx, t), idx, k, v, t)
    ELSE insert_below(node, idx, insert_loop(At(node.children, idx), k, v, t))

\* The loop of insert_nonfull, one iteration per level.
insert_loop(node, k, v, t) ==
    IF is_leaf(node)
    THEN insert_leaf(node, find_index(node, k), k, v)
    ELSE insert_descend(node, find_index(node, k), k, v, t)

insert_nonfull(self, k, v, t) ==
    IF is_full(self, t) THEN [node |-> self, res |-> None, panic |-> TRUE]
    ELSE insert_loop(self, k, v, t)

\* min_key / max_key: the key the returned reference points at, or None when
\* the final unwrap fails.
RECURSIVE min_key(_)
min_key(node) ==
    IF ~is_leaf(node) /\ ~node_is_empty(At(node.children, 0))
    THEN min_key(At(node.children, 0))
    ELSE IF node_is_empty(node) THEN None ELSE Some(At(node.keys, 0))

RECURSIVE max_key(_)
max_key(node) ==
    IF ~is_leaf(node) /\ ~node_is_empty(Last(node.children))
    THEN max_key(Last(node.children))
    ELSE IF node_is_empty(node) THEN None ELSE Some(Last(node.keys))

\* A rotation from the left sibling that puts the separator at the back of
\* the child.
rotate_from_left_appends(self, idx) ==
    LET mid == At(self.children, idx)
        left == At(self.children, idx - 1)
    IN  [keys |-> SetAt(self.keys, idx - 1, Last(left.keys)),
         vals |-> SetAt(self.vals, idx - 1, Last(left.vals)),
         children |->
             SetAt(SetAt(self.children, idx,
                         [keys |-> Append(mid.keys, At(self.keys, idx - 1)),
                          vals |-> Append(mid.vals, At(self.vals, idx - 1)),
                          children |->
                              IF ~is_leaf(left)
                              THEN InsertAt(mid.children, 0, Last(left.children))
                              ELSE mid.children]),
                   idx - 1,
                   [keys |-> Front(left.keys),
                    vals |-> Front(left.vals),
                    children |-> IF ~is_leaf(left) THEN Front(left.children)
                                 ELSE left.children])]

\* Case 3a, left sibling lends: rotate right through keys[idx - 1].
rotate_from_left(self, idx) ==
    LET mid == At(self.children, idx)
        left == At(self.children, idx - 1)
        mid2 == [keys |-> InsertAt(mid.keys, 0, At(self.keys, idx - 1)),
                 vals |-> InsertAt(mid.vals, 0, At(self.vals, idx - 1)),
                 children |-> IF ~is_leaf(left)
                              THEN InsertAt(mid.children, 0, Last(left.children))
                              ELSE mid.children]
        left2 == [keys |-> Front(left.keys),
                  vals |-> Front(left.vals),
                  children |-> IF ~is_leaf(left) THEN Front(left.children)
                               ELSE left.children]
    IN  [keys |-> SetAt(self.keys, idx - 1, Last(left.keys)),
         vals |-> SetAt(self.vals, idx - 1, Last(left.vals)),
         children |-> SetAt(SetAt(self.children, idx, mid2), idx - 1, left2)]

\* Case 3a, right sibling lends: rotate left through keys[idx].
rotate_from_right(self, idx) ==
    LET mid == At(self.children, idx)
        right == At(self.children, idx + 1)
        mid2 == [keys |-> Append(mid.keys, At(self.keys, idx)),
                 vals |-> Append(mid.vals, At(self.vals, idx)),
                 children |-> IF ~is_leaf(right)
                              THEN Append(mid.children, At(right.children, 0))
                              ELSE mid.children]
        right2 == [keys |-> Drop(right.keys, 1),
                   vals |-> Drop(right.vals, 1),
                   children |-> IF ~is_leaf(right) THEN Drop(right.children, 1)
                                ELSE right.children]
    IN  [keys |-> SetAt(self.keys, idx, At(right.keys, 0)),
         vals |-> SetAt(self.vals, idx, At(right.vals, 0)),
         children |-> SetAt(SetAt(self.children, idx, mid2), idx + 1, right2)]

\* A merge that forgets to drop children[i + 1] from the parent.
merge_children_keeps_child(self, i) ==
    LET l == At(self.children, i)
        r == At(self.children, i + 1)
    IN  [keys |-> RemoveAt(self.keys, i),
         vals |-> RemoveAt(self.vals, i),
         children |-> SetAt(self.children, i,
                            [keys |-> Append(l.keys, At(self.keys, i)) \o r.keys,
                             vals |-> Append(l.vals, At(self.vals, i)) \o r.vals,
                             children |-> l.children \o r.children])]

\* A merge that loses the separator of the parent.
merge_children_drops_separator(self, i) ==
    LET l == At(self.children, i)
        r == At(self.children, i + 1)
    IN  [keys |-> RemoveAt(self.keys, i),
         vals |-> RemoveAt(self.vals, i),
         children |->
             RemoveAt(SetAt(self.children, i,
                            [keys |-> l.keys \o r.keys,
                             vals |-> l.vals \o r.vals,
                             children |-> l.children \o r.children]),
                      i + 1)]

\* Cases 2c and 3b: children[i] takes keys[i] and all of children[i + 1],
\* which is dropped.
merge_children(self, i) ==
    LET l == At(self.children, i)
        r == At(self.children, i + 1)
        merged == [keys |-> Append(l.keys, At(self.keys, i)) \o r.keys,
                   vals |-> Append(l.vals, At(self.vals, i)) \o r.vals,
                   children |-> l.children \o r.children]
    IN  [keys |-> RemoveAt(self.keys, i),
         vals |-> RemoveAt(self.vals, i),
         children |-> RemoveAt(SetAt(self.children, i, merged), i + 1)]

\* A descent that never gives a key to a child of t-1 keys.
case3_fatten_never(self, idx, t) == [node |-> self, idx |-> idx, touched |-> FALSE]

\* A descent that rotates when a sibling can lend and never merges.
case3_fatten_no_merge(self, idx, t) ==
    IF node_len(At(self.children, idx)) + 1 = t
    THEN IF idx > 0 /\ node_len(At(self.children, idx - 1)) >= t
         THEN [node |-> rotate_from_left(self, idx), idx |-> idx, touched |-> TRUE]
         ELSE IF idx + 1 < Len(self.children)
                 /\ node_len(At(self.children, idx + 1)) >= t
         THEN [node |-> rotate_from_right(self, idx), idx |-> idx, touched |-> TRUE]
         ELSE [node |-> self, idx |-> idx, touched |-> FALSE]
    ELSE [node |-> self, idx |-> idx, touched |-> FALSE]

\* A descent that asks the right sibling first and merges to the right first.
case3_fatten_right_first(self, idx, t) ==
    IF node_len(At(self.children, idx)) + 1 = t
    THEN IF idx + 1 < Len(self.children)
            /\ node_len(At(self.children, idx + 1)) >= t
         THEN [node |-> rotate_from_right(self, idx), idx |-> idx, touched |-> TRUE]
         ELSE IF idx > 0 /\ node_len(At(self.children, idx - 1)) >= t
         THEN [node |-> rotate_from_left(self, idx), idx |-> idx, touched |-> TRUE]
         ELSE IF idx + 1 < Len(self.children)
         THEN [node |-> merge_children(self, idx), idx |-> idx, touched |-> TRUE]
         ELSE IF idx > 0
         THEN [node |-> merge_children(self, idx - 1), idx |-> idx - 1,
               touched |-> TRUE]
         ELSE [node |-> self, idx |-> idx, touched |-> FALSE]
    ELSE [node |-> self, idx |-> idx, touched |-> FALSE]

\* Case 3, before the descent: the node and the index to descend into after
\* children[idx] has been given a key; touched tells whether the keys of the
\* child descended into were rewritten.
case3_fatten(self, idx, t) ==
    IF node_len(At(self.children, idx)) + 1 = t
    THEN IF idx > 0 /\ node_len(At(self.children, idx - 1)) >= t
         THEN [node |-> rotate_from_left(self, idx), idx |-> idx, touched |-> TRUE]
         ELSE IF idx + 1 < Len(self.children)
                 /\ node_len(At(self.children, idx + 1)) >= t
         THEN [node |-> rotate_from_right(self, idx), idx |-> idx, touched |-> TRUE]
         ELSE IF idx > 0
         THEN [node |-> merge_children(self, idx - 1), idx |-> idx - 1,
               touched |-> TRUE]
         ELSE IF idx + 1 < Len(self.children)
         THEN [node |-> merge_children(self, idx), idx |-> idx, touched |-> TRUE]
         ELSE [node |-> self, idx |-> idx, touched |-> FALSE]
    ELSE [node |-> self, idx |-> idx, touched |-> FALSE]

\* Node::remove.  k is a reference: in Cases 2a and 2b it is the raw pointer
\* max_key / min_key returned, which points into the keys of the extremal leaf
\* of the very subtree the call mutates (borrowed = TRUE).  Once Case 3
\* rewrites the keys of that leaf (shift, reallocation or drop of the vector)
\* the pointer dangles and every later read of *k yields g.
RemovePanic(self, d) == [node |-> self, res |-> None, panic |-> TRUE, dangled |-> d]

\* Case 1: the entry leaves the leaf.
remove_case1(self, idx) ==
    [node |-> [self EXCEPT !.keys = RemoveAt(@, idx), !.vals = RemoveAt(@, idx)],
     res |-> Some(<<At(self.keys, idx), At(self.vals, idx)>>),
     panic |-> FALSE, dangled |-> FALSE]

\* Cases 2a and 2b after the recursive removal r from children[c]: unwrap the
\* entry, swap it in at idx, return the entry that was there.
remove_swap(self, idx, c, r) ==
    IF r.panic \/ r.res = None THEN RemovePanic(self, r.dangled)
    ELSE [node |-> [keys |-> SetAt(self.keys, idx, Unwrap(r.res)[1]),
                    vals |-> SetAt(self.vals, idx, Unwrap(r.res)[2]),
                    children |-> SetAt(self.children, c, r.node)],
          res |-> Some(<<At(self.keys, idx), At(self.vals, idx)>>),
          panic |-> FALSE, dangled |-> r.dangled]

\* The node once the recursive removal r below children[i] has returned.
remove_below(node, i, r, d) ==
    [node |-> [node EXCEPT !.children = SetAt(@, i, r.node)],
     res |-> r.res, panic |-> r.panic, dangled |-> d \/ r.dangled]

RECURSIVE node_remove(_, _, _, _, _)

\* Case 2a (c = idx, ek = max_key) and Case 2b (c = idx + 1, ek = min_key).
remove_case2ab(self, idx, c, ek, t, g) ==
    IF ek = None THEN RemovePanic(self, FALSE)
    ELSE remove_swap(self, idx, c,
                     node_remove(At(self.children, c), Unwrap(ek), t, TRUE, g))

\* Case 2c on the node m whose children idx and idx + 1 have been merged.
remove_case2c(m, idx, k, t, borrowed, g) ==
    IF ~is_full(At(m.children, idx), t) THEN RemovePanic(m, FALSE)
    ELSE remove_below(m, idx,
                      node_remove(At(m.children, idx), k, t, borrowed, g), FALSE)

Dangles(f, borrowed) ==
    borrowed /\ f.touched /\ is_leaf(At(f.node.children, f.idx))

\* Case 3 after the fattening f: the descent.
remove_case3(f, k, t, borrowed, g) ==
    remove_below(f.node, f.idx,
                 node_remove(At(f.node.children, f.idx),
                             IF Dangles(f, borrowed) THEN g ELSE k,
                             t, borrowed, g),
                 Dangles(f, borrowed))

remove_at(self, idx, k, t, borrowed, g) ==
    IF idx < node_len(self) /\ At(self.keys, idx) = k /\ is_leaf(self)
    THEN remove_case1(self, idx)
    ELSE IF idx < node_len(self) /\ At(self.keys, idx) = k /\ ~is_leaf(self)
    THEN IF node_len(At(self.children, idx)) >= t
         THEN remove_case2ab(self, idx, idx, max_key(At(self.children, idx)), t, g)
         ELSE IF node_len(At(self.children, idx + 1)) >= t
         THEN remove_case2ab(self, idx, idx + 1,
                             min_key(At(self.children, idx + 1)), t, g)
         ELSE remove_case2c(merge_children(self, idx), idx, k, t, borrowed, g)
    ELSE IF is_leaf(self)
    THEN [node |-> self, res |-> None, panic |-> FALSE, dangled |-> FALSE]
    ELSE remove_case3(case3_fatten(self, idx, t), k, t, borrowed, g)

node_remove(self, k, t, borrowed, g) ==
    remove_at(self, find_index(self, k), k, t, borrowed, g)

\* The values a removal of k can read through a dangling reference: any, when
\* it reads through one at all.  The leaf that Case 3 rewrites lies two levels
\* below the node of Case 2a / 2b, so no removal from a tree of fewer than
\* three levels reads through one.
DanglingReads(r, k, t) ==
    IF ~is_leaf(r) /\ ~is_leaf(At(r.children, 0))
       /\ node_remove(r, k, t, FALSE, k).dangled
    THEN Garbage ELSE {k}

\* The invocations of Node::remove that one removal makes, outermost first:
\* for each the node it is invoked on (as it is at that moment), the key read
\* through the reference k, the index find_index returned and whether k is
\* the reference of Case 2a / 2b.
RECURSIVE remove_calls(_, _, _, _, _)

calls_case2ab(self, c, ek, t, g) ==
    IF ek = None THEN <<>>
    ELSE remove_calls(At(self.children, c), Unwrap(ek), t, TRUE, g)

calls_case2c(m, idx, k, t, borrowed, g) ==
    IF ~is_full(At(m.children, idx), t) THEN <<>>
    ELSE remove_calls(At(m.children, idx), k, t, borrowed, g)

calls_case3(f, k, t, borrowed, g) ==
    remove_calls(At(f.node.children, f.idx),
                 IF Dangles(f, borrowed) THEN g ELSE k, t, borrowed, g)

calls_below(self, idx, k, t, borrowed, g) ==
    IF idx < node_len(self) /\ At(self.keys, idx) = k /\ is_leaf(self)
    THEN <<>>
    ELSE IF idx < node_len(self) /\ At(self.keys, idx) = k /\ ~is_leaf(self)
    THEN IF node_len(At(self.children, idx)) >= t
         THEN calls_case2ab(self, idx, max_key(At(self.children, idx)), t, g)
         ELSE IF node_len(At(self.children, idx + 1)) >= t
         THEN calls_case2ab(self, idx + 1, min_key(At(self.children, idx + 1)),
                            t, g)
         ELSE calls_case2c(merge_children(self, idx), idx, k, t, borrowed, g)
    ELSE IF is_leaf(self)
    THEN <<>>
    ELSE calls_case3(case3_fatten(self, idx, t), k, t, borrowed, g)

remove_calls(self, k, t, borrowed, g) ==
    <<[node |-> self, k |-> k, idx |-> find_index(self, k), borrowed |-> borrowed]>>
        \o calls_below(self, find_index(self, k), k, t, borrowed, g)

\* --------------------------------------------------------------- BTreeMap
\* .map(|(idx, node)| &node.vals[idx])
value_at(found) ==
    IF found = None THEN None
    ELSE Some(At(Unwrap(found)[2].vals, Unwrap(found)[1]))

BTreeMap_get(r, k) == value_at(node_get(r, k))

BTreeMap_contains(r, k) == BTreeMap_get(r, k) # None

\* BTreeMap::with_degree: the struct, for any degree.
with_degree(t) == [len |-> 0, degree |-> t, root |-> NewNode]

\* The end of BTreeMap::insert: a new key is counted.
insert_count(n, ins) ==
    [root |-> ins.node,
     len |-> IF ins.res = None THEN n + 1 ELSE n,
     res |-> ins.res,
     panic |-> ins.panic]

\* BTreeMap::insert with a full root: the old root is the only child of a
\* fresh root and is split (grown is what split_child returned).
insert_grown(grown, n, k, v, t) ==
    IF grown.panic
    THEN [root |-> grown.node, len |-> n, res |-> None, panic |-> TRUE]
    ELSE insert_count(n, insert_nonfull(grown.node, k, v, t))

BTreeMap_insert(r, n, k, v, t) ==
    IF is_full(r, t)
    THEN insert_grown(split_child([NewNode EXCEPT !.children = <<r>>], 0, t),
                      n, k, v, t)
    ELSE insert_count(n, insert_nonfull(r, k, v, t))

\* remove_entry that forgets len -= 1.
remove_shrink_no_count(r, n, rem) ==
    IF rem.panic THEN [root |-> r, len |-> n, res |-> None, panic |-> TRUE]
    ELSE [root |-> IF rem.res # None /\ ~is_leaf(rem.node) /\ node_is_empty(rem.node)
                   THEN Last(rem.node.children) ELSE rem.node,
          len |-> n,
          res |-> rem.res,
          panic |-> FALSE]

\* remove_entry that shrinks an emptied internal root whatever the removal
\* returned.
remove_shrink_always(r, n, rem) ==
    IF rem.panic THEN [root |-> r, len |-> n, res |-> None, panic |-> TRUE]
    ELSE [root |-> IF ~is_leaf(rem.node) /\ node_is_empty(rem.node)
                   THEN Last(rem.node.children) ELSE rem.node,
          len |-> IF rem.res # None THEN n - 1 ELSE n,
          res |-> rem.res,
          panic |-> rem.res # None /\ n = 0]

\* The end of BTreeMap::remove_entry: shrink an emptied internal root and
\* count the key off, only when the removal returned an entry.  len -= 1
\* panics at 0.
remove_shrink(r, n, rem) ==
    IF rem.panic THEN [root |-> r, len |-> n, res |-> None, panic |-> TRUE]
    ELSE IF rem.res # None
    THEN [root |-> IF ~is_leaf(rem.node) /\ node_is_empty(rem.node)
                   THEN Last(rem.node.children) ELSE rem.node,
          len |-> n - 1,
          res |-> rem.res,
          panic |-> n = 0]
    ELSE [root |-> rem.node, len |-> n, res |-> None, panic |-> FALSE]

BTreeMap_remove_entry(r, n, k, t, g) ==
    remove_shrink(r, n, node_remove(r, k, t, FALSE, g))

\* .map(|(_, val)| val)
value_of(e) ==
    [e EXCEPT !.res = IF @ = None THEN None ELSE Some(Unwrap(@)[2])]

BTreeMap_remove(r, n, k, t, g) == value_of(BTreeMap_remove_entry(r, n, k, t, g))

\* ------------------------------------------------------------------ Iter
\* An iterator is the two parallel stacks nodes and indices.
\* The descent loop of Iter::new and Iter::next: push n and its leftmost
\* descendants down to a leaf, each with index 0.
RECURSIVE push_leftmost(_, _)
push_leftmost(it, n) ==
    IF ~is_leaf(n)
    THEN push_leftmost([nodes |-> Append(it.nodes, n),
                        indices |-> Append(it.indices, 0)],
                       At(n.children, 0))
    ELSE [nodes |-> Append(it.nodes, n), indices |-> Append(it.indices, 0)]

\* Iter::new: nothing is pushed when the root has no keys.
Iter_new(r) ==
    IF ~node_is_empty(r)
    THEN push_leftmost([nodes |-> <<>>, indices |-> <<>>], r)
    ELSE [nodes |-> <<>>, indices |-> <<>>]

\* The end of Iter::next: descend into children[idx] when there is one.
iter_descend(it, node, idx) ==
    IF idx < Len(node.children)
    THEN push_leftmost(it, At(node.children, idx))
    ELSE it

\* Iter::next that leaves an exhausted frame on the stacks.
iter_advance_keeps_frame(it, node, idx) ==
    iter_descend([nodes |-> it.nodes,
                  indices |-> SetAt(it.indices, Len(it.indices) - 1, idx)],
                 node, idx)

\* Iter::next after the entry at idx - 1 was read: store idx, pop the frame
\* when the node is exhausted, then descend.
iter_advance(it, node, idx) ==
    iter_descend(IF idx = node_len(node)
                 THEN [nodes |-> Front(it.nodes), indices |-> Front(it.indices)]
                 ELSE [nodes |-> it.nodes,
                       indices |-> SetAt(it.indices, Len(it.indices) - 1, idx)],
                 node, idx)

\* Iter::next on the top frame: keys.get(idx).unwrap() and
\* vals.get(idx).unwrap() panic past the end.
iter_yield(it, node, idx) ==
    IF idx >= Len(node.keys) \/ idx >= Len(node.vals)
    THEN [it |-> it, item |-> None, panic |-> TRUE]
    ELSE [it |-> iter_advance(it, node, idx + 1),
          item |-> Some(<<At(node.keys, idx), At(node.vals, idx)>>),
          panic |-> FALSE]

Iter_next(it) ==
    IF Len(it.nodes) = 0
    THEN [it |-> it, item |-> None, panic |-> FALSE]
    ELSE iter_yield(it, Last(it.nodes), Last(it.indices))

\* next() called until it returns None (or panics): the entries yielded.
RECURSIVE iter_drain(_, _)
iter_drain(step, out) ==
    IF step.panic THEN [items |-> out, panic |-> TRUE]
    ELSE IF step.item = None THEN [items |-> out, panic |-> FALSE]
    ELSE iter_drain(Iter_next(step.it), Append(out, Unwrap(step.item)))

Iterate(r) == iter_drain(Iter_next(Iter_new(r)), <<>>)

\* Keys::next and Values::next: .map(|(k, _)| k) and .map(|(_, v)| v).
Keys_of(items) == [i \in 1..Len(items) |-> items[i][1]]

Values_of(items) == [i \in 1..Len(items) |-> items[i][2]]

\* ------------------------------------------------------ the state machine
\* ref is the reference map (key -> Option of value) driven by the same calls;
\* last records the latest mutating call with its result and the result of the
\* same call on the reference map.  A panic ends the run.  twin is a second
\* map: under SpecOrder it is built with another degree and receives the same
\* inserts; elsewhere it stays as constructed.
\* The in-memory map has no storage behind it.
NoStorage == [data |-> <<>>]

NoCall == [op |-> "new", k |-> 0, v |-> FALSE, res |-> None, exp |-> None]

Init ==
    /\ degree \in Degrees
    /\ root = NewNode
    /\ len = 0
    /\ panicked = FALSE
    /\ ref = [k \in DeepKeys |-> None]
    /\ last = NoCall
    /\ twin = [map |-> with_degree(degree), panic |-> FALSE]
    /\ storage = NoStorage

RefLen == Cardinality({k \in DeepKeys : ref[k] # None})

\* len() and is_empty() read the field; they and get / contains change nothing.
BTreeMap_len == len

BTreeMap_is_empty == BTreeMap_len = 0

\* The call op(k, v) returned r (or panicked); the reference map becomes
\* newref and returned exp.
Returned(op, k, v, r, newref, exp) ==
    IF r.panic
    THEN /\ panicked' = TRUE
         /\ last' = [op |-> op, k |-> k, v |-> v, res |-> None, exp |-> None]
         /\ UNCHANGED <<root, len, degree, ref>>
    ELSE /\ root' = r.root
         /\ len' = r.len
         /\ ref' = newref
         /\ last' = [op |-> op, k |-> k, v |-> v, res |-> r.res, exp |-> exp]
         /\ UNCHANGED <<degree, panicked>>

Insert(k, v) ==
    /\ ~panicked
    /\ Returned("insert", k, v, BTreeMap_insert(root, len, k, v, degree),
                [ref EXCEPT ![k] = Some(v)], ref[k])

Remove(k) ==
    /\ ~panicked
    /\ \E g \in DanglingReads(root, k, degree) :
          Returned("remove", k, FALSE, BTreeMap_remove(root, len, k, degree, g),
                   [ref EXCEPT ![k] = None], ref[k])

RemoveEntry(k) ==
    /\ ~panicked
    /\ \E g \in DanglingReads(root, k, degree) :
          Returned("remove_entry", k, FALSE,
                   BTreeMap_remove_entry(root, len, k, degree, g),
                   [ref EXCEPT ![k] = None],
                   IF ref[k] = None THEN None ELSE Some(<<k, Unwrap(ref[k])>>))

\* A clear that resets the root and forgets len.
Clear_keeps_len ==
    /\ ~panicked
    /\ root' = NewNode
    /\ ref' = [k \in DeepKeys |-> None]
    /\ last' = [op |-> "clear", k |-> 0, v |-> FALSE, res |-> None, exp |-> None]
    /\ UNCHANGED <<len, degree, panicked>>

Clear ==
    /\ ~panicked
    /\ len' = 0
    /\ root' = NewNode
    /\ ref' = [k \in DeepKeys |-> None]
    /\ last' = [op |-> "clear", k |-> 0, v |-> FALSE, res |-> None, exp |-> None]
    /\ UNCHANGED <<degree, panicked>>

\* Calls with keys 1..MaxKey and both values, on maps of at most MaxLen entries.
Next ==
    \/ \E k \in Keys, v \in Vals : len < MaxLen /\ Insert(k, v) /\ UNCHANGED <<twin, storage>>
    \/ \E k \in Keys : Remove(k) /\ UNCHANGED <<twin, storage>>
    \/ \E k \in Keys : RemoveEntry(k) /\ UNCHANGED <<twin, storage>>
    \/ Clear /\ UNCHANGED <<twin, storage>>

Spec == Init /\ [][Next]_vars

\* The monotone-growth workload followed by removals in any order: insert
\* 1, 2, ... MaxDeepKey in ascending order (each key mapped to TRUE) while no
\* key of the prefix is missing, remove any key at any time.  At degree 2 the
\* tenth insert makes a tree of three levels.
Monotone(k) == k = len + 1 /\ \A j \in 1..len : ref[j] # None

NextDeep ==
    \/ \E k \in DeepKeys : Monotone(k) /\ Insert(k, TRUE) /\ UNCHANGED <<twin, storage>>
    \/ \E k \in DeepKeys : Remove(k) /\ UNCHANGED <<twin, storage>>

SpecDeep == Init /\ [][NextDeep]_vars

\* The mirror workload on a map made by new(): insert MaxDeepKey,
\* MaxDeepKey - 1, ... in descending order (each key mapped to TRUE) while no
\* key of the suffix is missing, remove any key at any time.  The trees lean
\* to the left where those of SpecDeep lean to the right.
Descending(k) == k = MaxDeepKey - len /\ \A j \in (k + 1)..MaxDeepKey : ref[j] # None

NextDescend ==
    \/ \E k \in DeepKeys : Descending(k) /\ Insert(k, TRUE) /\ UNCHANGED <<twin, storage>>
    \/ \E k \in DeepKeys : Remove(k) /\ UNCHANGED <<twin, storage>>

\* BTreeMap::new.
BTreeMap_new == with_degree(DEFAULT_DEGREE)

InitNew ==
    /\ degree = BTreeMap_new.degree
    /\ root = BTreeMap_new.root
    /\ len = BTreeMap_new.len
    /\ panicked = FALSE
    /\ ref = [k \in DeepKeys |-> None]
    /\ last = NoCall
    /\ twin = [map |-> BTreeMap_new, panic |-> FALSE]
    /\ storage = NoStorage

SpecDescend == InitNew /\ [][NextDescend]_vars

\* with_degree takes any usize and checks nothing.  Degree 1 is the smallest
\* for which 2 * degree - 1 stays inside usize.
AnyDegrees == 1..MaxDegree

InitAnyDegree ==
    /\ degree \in AnyDegrees
    /\ root = with_degree(degree).root
    /\ len = with_degree(degree).len
    /\ panicked = FALSE
    /\ ref = [k \in DeepKeys |-> None]
    /\ last = NoCall
    /\ twin = [map |-> with_degree(degree), panic |-> FALSE]
    /\ storage = NoStorage

SpecAnyDegree == InitAnyDegree /\ [][Next]_vars

\* Inserts of pairwise distinct keys 1..MaxDeepKey in any order, each key with
\* its fixed value, into the map and into a twin of another degree.
ValueOf(k) == k % 2 = 0

InitOrder ==
    /\ degree \in Degrees
    /\ root = with_degree(degree).root
    /\ len = with_degree(degree).len
    /\ panicked = FALSE
    /\ ref = [k \in DeepKeys |-> None]
    /\ last = NoCall
    /\ twin \in {[map |-> with_degree(t), panic |-> FALSE] : t \in Degrees \ {degree}}
    /\ storage = NoStorage

\* The twin after its own insert returned ins.
twin_insert(ins) ==
    IF ins.panic THEN [twin EXCEPT !.panic = TRUE]
    ELSE [twin EXCEPT !.map.root = ins.root, !.map.len = ins.len]

TwinInsert(k, v) ==
    /\ ~twin.panic
    /\ twin' = twin_insert(BTreeMap_insert(twin.map.root, twin.map.len, k, v,
                                           twin.map.degree))

NextOrder ==
    \E k \in DeepKeys :
        /\ ref[k] = None /\ Insert(k, ValueOf(k)) /\ TwinInsert(k, ValueOf(k))
        /\ UNCHANGED storage

SpecOrder == InitOrder /\ [][NextOrder]_vars

\* ------------------------------------------------------- tree measures
RECURSIVE total_keys(_)
RECURSIVE children_keys(_, _)
children_keys(cs, i) ==
    IF i = 0 THEN 0 ELSE total_keys(cs[i]) + children_keys(cs, i - 1)

total_keys(node) == node_len(node) + children_keys(node.children, Len(node.children))

RECURSIVE height(_)
height(node) == IF is_leaf(node) THEN 1 ELSE 1 + height(At(node.children, 0))

Range(s) == {s[i] : i \in 1..Len(s)}

\* Every node of the tree under node, node included.
RECURSIVE Subtrees(_)
Subtrees(node) == {node} \cup UNION {Subtrees(c) : c \in Range(node.children)}

NonRootNodes(r) == UNION {Subtrees(c) : c \in Range(r.children)}

\* The keys stored anywhere under node.
KeysOf(node) == UNION {Range(n.keys) : n \in Subtrees(node)}

\* The depths at which the leaves under node sit, node being at depth d.
RECURSIVE LeafDepths(_, _)
LeafDepths(node, d) ==
    IF is_leaf(node) THEN {d}
    ELSE UNION {LeafDepths(c, d + 1) : c \in Range(node.children)}

\* ----------------------------------------------------------------- claims

\* C1: every insert, remove, get, contains and len call returns what the same
\* call returns on the reference map (insert overwrites and returns the
\* previous value, remove deletes and returns the bound value).
C1_MatchesReference ==
    ~panicked =>
        /\ last.op \in {"insert", "remove"} => last.res = last.exp
        /\ \A k \in DeepKeys :
              /\ BTreeMap_get(root, k) = ref[k]
              /\ BTreeMap_contains(root, k) = (ref[k] # None)
        /\ BTreeMap_len = RefLen

\* C2: for every key inserted and not removed since, get returns the value of
\* the most recent insert of that key.
C2_LookupLatest ==
    ~panicked =>
        \A k \in DeepKeys : ref[k] # None => BTreeMap_get(root, k) = ref[k]

\* C3: when insert(k, v1) is immediately followed by insert(k, v2), the second
\* call returns Some(v1), len is unchanged by it and get(k) then returns v2.
C3_InsertTwice ==
    [][(/\ last.op = "insert"
        /\ last'.op = "insert"
        /\ last'.k = last.k
        /\ ~panicked')
       => (/\ last'.res = Some(last.v)
           /\ len' = len
           /\ BTreeMap_get(root', last'.k) = Some(last'.v))]_vars

\* C4: the keys of every node are strictly ascending, and every key in the
\* subtree of children[i] lies strictly between keys[i-1] and keys[i].
C4_Ordered ==
    ~panicked =>
        \A n \in Subtrees(root) :
            /\ \A i \in 1..(node_len(n) - 1) : n.keys[i] < n.keys[i + 1]
            /\ \A i \in 0..(Len(n.children) - 1) :
                  \A key \in KeysOf(At(n.children, i)) :
                      /\ (i > 0 /\ i - 1 < node_len(n)) => At(n.keys, i - 1) < key
                      /\ i < node_len(n) => key < At(n.keys, i)

\* C5: every non-root node holds at least t-1 and at most 2t-1 keys, and the
\* root holds at most 2t-1 keys.
C5_DegreeBounds ==
    ~panicked =>
        /\ \A n \in NonRootNodes(root) :
              degree - 1 <= node_len(n) /\ node_len(n) <= 2 * degree - 1
        /\ node_len(root) <= 2 * degree - 1

C5_Witness ==
    /\ last.op = "remove"
    /\ last.res # None
    /\ height(root) = 3
    /\ \E n \in NonRootNodes(root) : node_len(n) = degree - 1
    /\ \E n \in NonRootNodes(root) : node_len(n) > degree - 1

\* C6: after any insert, remove, remove_entry or clear, whether or not the
\* removed key was present, a root with no keys is a leaf.
C6_EmptyRootIsLeaf ==
    ~panicked => (node_is_empty(root) => is_leaf(root))

\* C7: all leaves of the tree are at the same depth.
C7_Balanced ==
    ~panicked => Cardinality(LeafDepths(root, 0)) = 1

C7_Witness ==
    /\ last.op = "remove"
    /\ last.res # None
    /\ height(root) = 3
    /\ Cardinality({n \in Subtrees(root) : is_leaf(n)}) >= 5

\* C8: every node has as many values as keys, and either no children or one
\* child more than keys.
C8_Parallel ==
    ~panicked =>
        \A n \in Subtrees(root) :
            /\ Len(n.vals) = Len(n.keys)
            /\ Len(n.children) \in {0, Len(n.keys) + 1}

C8_Witness ==
    /\ last.op = "remove"
    /\ last.res # None
    /\ height(root) = 3
    /\ \E n \in NonRootNodes(root) : ~is_leaf(n) /\ Len(n.children) = 3

\* C9: len equals the number of keys stored in all nodes, and is_empty() is
\* true exactly when that number is 0.
C9_LenCountsKeys ==
    ~panicked =>
        /\ len = total_keys(root)
        /\ BTreeMap_is_empty <=> total_keys(root) = 0

C9_Witness ==
    /\ last.op = "remove"
    /\ last.res # None
    /\ height(root) = 3
    /\ len = 9

\* C10: where contains(k) holds, remove(k) returns the value get(k) returned
\* just before, decreases len by one, and afterwards contains(k) is false
\* while get(j) is unchanged for every other key j.
C10_RemovePresent ==
    [][(/\ last'.op = "remove"
        /\ ~panicked'
        /\ <<root, len, ref, last>> # <<root', len', ref', last'>>
        /\ BTreeMap_contains(root, last'.k))
       => (/\ last'.res = BTreeMap_get(root, last'.k)
           /\ len' = len - 1
           /\ ~BTreeMap_contains(root', last'.k)
           /\ \A j \in DeepKeys \ {last'.k} :
                 BTreeMap_get(root', j) = BTreeMap_get(root, j))]_vars

\* C11: remove(k) and remove_entry(k) of a key that is not contained return
\* None and leave len and get(j) for every key j as they were.
C11_RemoveAbsent ==
    [][(/\ last'.op \in {"remove", "remove_entry"}
        /\ ~panicked'
        /\ <<root, len, ref, last>> # <<root', len', ref', last'>>
        /\ ~BTreeMap_contains(root, last'.k))
       => (/\ last'.res = None
           /\ len' = len
           /\ \A j \in DeepKeys :
                 BTreeMap_get(root', j) = BTreeMap_get(root, j))]_vars

\* C12: an iterator built over the tree yields exactly len() entries before it
\* returns None, and so do Keys and Values.
YieldsCount(it, n) ==
    /\ ~it.panic
    /\ Len(it.items) = n
    /\ Len(Keys_of(it.items)) = n
    /\ Len(Values_of(it.items)) = n

C12_IterLen ==
    ~panicked => YieldsCount(Iterate(root), BTreeMap_len)

\* C13: an iterator built over the tree yields keys in strictly ascending
\* order, each with the value bound to it, and every stored key exactly once.
YieldsInOrder(it, r) ==
    /\ ~it.panic
    /\ \A i \in 1..(Len(it.items) - 1) : it.items[i][1] < it.items[i + 1][1]
    /\ \A i \in 1..Len(it.items) :
          BTreeMap_get(r, it.items[i][1]) = Some(it.items[i][2])
    /\ Range(Keys_of(it.items)) = KeysOf(r)

C13_IterOrdered ==
    ~panicked => YieldsInOrder(Iterate(root), root)

\* C14: for a key k that is not contained, insert(k, v) followed by remove(k)
\* leaves len and the in-order sequence of entries as they were before.
Restored(rem) ==
    /\ ~rem.panic
    /\ rem.len = len
    /\ Iterate(rem.root) = Iterate(root)

RestoredAfter(ins, k) ==
    /\ ~ins.panic
    /\ \A g \in DanglingReads(ins.root, k, degree) :
          Restored(BTreeMap_remove(ins.root, ins.len, k, degree, g))

C14_InsertRemoveRestores ==
    ~panicked =>
        \A k \in DeepKeys, v \in Vals :
            ~BTreeMap_contains(root, k) =>
                RestoredAfter(BTreeMap_insert(root, len, k, v, degree), k)

\* C15: two orders of inserting the same pairwise distinct keys, each with
\* its fixed value, into empty trees of one degree give the same iteration.
\* The map of a run (keys inserted in the order of the run) is compared with
\* the map built from the same keys in ascending order.
RECURSIVE BuildAscending(_, _, _)

build_next(ins, k, t) ==
    IF ins.panic THEN ins
    ELSE BuildAscending([len |-> ins.len, degree |-> t, root |-> ins.root],
                        k + 1, t)

BuildAscending(m, k, t) ==
    IF k > MaxDeepKey
    THEN [root |-> m.root, len |-> m.len, res |-> None, panic |-> FALSE]
    ELSE IF ref[k] = None THEN BuildAscending(m, k + 1, t)
    ELSE build_next(BTreeMap_insert(m.root, m.len, k, ValueOf(k), t), k, t)

SameIteration(a, b) ==
    /\ ~a.panic
    /\ ~b.panic
    /\ Iterate(a.root) = Iterate(b.root)

C15_OrderIndependent ==
    ~panicked =>
        SameIteration([root |-> root, panic |-> FALSE],
                      BuildAscending(with_degree(degree), 1, degree))

\* All keys are in, the last one inserted was not the largest, and the tree is
\* not the tree the ascending order builds.
C15_Witness ==
    /\ len = MaxDeepKey
    /\ last.op = "insert"
    /\ last.k < MaxDeepKey
    /\ height(root) = 3
    /\ root # BuildAscending(with_degree(degree), 1, degree).root

\* C16: with_degree(t) with t < 2 hands back no tree on which an insert and
\* then a remove complete.
C16_LowDegreeRejected ==
    degree < 2 => ~(~panicked /\ last.op = "remove" /\ last.res # None)

\* C17: clear() leaves the map as with_degree(degree) makes it: len 0, the
\* root a leaf with no keys, every lookup absent, iteration empty, the degree
\* unchanged.
C17_ClearResets ==
    [][last'.op = "clear"
       => (/\ [len |-> len', degree |-> degree', root |-> root']
                = with_degree(degree)
           /\ len' = 0
           /\ is_leaf(root') /\ node_is_empty(root')
           /\ \A k \in DeepKeys :
                 BTreeMap_get(root', k) = None /\ ~BTreeMap_contains(root', k)
           /\ Iterate(root') = [items |-> <<>>, panic |-> FALSE]
           /\ degree' = degree)]_vars

C17_Witness ==
    /\ last.op = "clear"
    /\ ~panicked
    /\ BTreeMap_is_empty
    /\ root = with_degree(degree).root

C19_DegreeIndependent ==
    ~panicked =>
        /\ ~twin.panic
        /\ twin.map.len = BTreeMap_len
        /\ Iterate(twin.map.root) = Iterate(root)
        /\ ~Iterate(root).panic

\* The two trees have different heights.
C19_Witness ==
    /\ len = MaxDeepKey
    /\ last.op = "insert"
    /\ twin.map.degree # degree
    /\ height(twin.map.root) # height(root)

\* C20: every node the loop of insert_nonfull descends into, the root it is
\* called on included, has fewer than 2t-1 keys at that moment; the asserts
\* of insert_nonfull and split_child never fail and no node ever holds more
\* than 2t-1 keys.
\* reaches_full: the descent of insert_nonfull(k) from node meets a node of
\* 2t-1 keys or a failing assert of split_child.
RECURSIVE reaches_full(_, _, _)

reaches_full_split(sp, idx, k, t) ==
    \/ sp.panic
    \/ reaches_full(At(sp.node.children,
                       IF At(sp.node.keys, idx) < k THEN idx + 1 ELSE idx),
                    k, t)

reaches_full_below(node, idx, k, t) ==
    IF is_full(At(node.children, idx), t)
    THEN reaches_full_split(split_child(node, idx, t), idx, k, t)
    ELSE reaches_full(At(node.children, idx), k, t)

reaches_full(node, k, t) ==
    \/ is_full(node, t)
    \/ ~is_leaf(node) /\ reaches_full_below(node, find_index(node, k), k, t)

\* BTreeMap::insert: the root grows first when it is full.
reaches_full_grown(grown, k, t) == grown.panic \/ reaches_full(grown.node, k, t)

insert_reaches_full(r, k, t) ==
    IF is_full(r, t)
    THEN reaches_full_grown(split_child([NewNode EXCEPT !.children = <<r>>], 0, t),
                            k, t)
    ELSE reaches_full(r, k, t)

C20_DescentNonFull ==
    /\ panicked => last.op # "insert"
    /\ ~panicked =>
          /\ \A k \in DeepKeys : ~insert_reaches_full(root, k, degree)
          /\ \A n \in Subtrees(root) : node_len(n) <= 2 * degree - 1

\* An insert grew the tree to three levels: the root and a child were split
\* on the way down.
C20_Witness ==
    /\ last.op = "insert"
    /\ ~panicked
    /\ height(root) = 3
    /\ len >= 9

\* C21: during any remove, every node other than the root on which
\* Node::remove is invoked has at least t keys at the moment of the call, and
\* no non-root node is left with fewer than t-1 keys.
CallsFat(cs, t) ==
    \A i \in 2..Len(cs) : node_len(cs[i].node) >= t

C21_DescentFat ==
    ~panicked =>
        /\ \A k \in DeepKeys : \A g \in DanglingReads(root, k, degree) :
              CallsFat(remove_calls(root, k, degree, FALSE, g), degree)
        /\ \A n \in NonRootNodes(root) : node_len(n) >= degree - 1

\* A removal went down a tree of three levels and left a node of t-1 keys on
\* each level below the root.
C21_Witness ==
    /\ last.op = "remove"
    /\ last.res # None
    /\ ~panicked
    /\ height(root) = 3
    /\ len = 8
    /\ \E c \in Range(root.children) :
          /\ node_len(c) = degree - 1
          /\ \E d \in Range(c.children) : node_len(d) = degree - 1

\* C22: when split_child(i, t) is called on a non-full node whose children[i]
\* has exactly 2t-1 keys, children[i] keeps the former keys/values 0..t-2, the
\* former median sits at keys[i]/vals[i] of the parent, the new children[i+1]
\* holds the former keys/values t..2t-2, both halves have t-1 keys, the 2t
\* children of an internal child are divided t and t, and the parent has
\* gained one key and one child with its other entries in their order.
\* split_calls: the calls of split_child that insert(k) makes, in order, each
\* with the node it is called on as it is at that moment.
RECURSIVE split_calls(_, _, _)

split_calls_after(sp, idx, k, t) ==
    IF sp.panic THEN <<>>
    ELSE split_calls(At(sp.node.children,
                        IF At(sp.node.keys, idx) < k THEN idx + 1 ELSE idx),
                     k, t)

split_calls_below(node, idx, k, t) ==
    IF is_full(At(node.children, idx), t)
    THEN <<[self |-> node, idx |-> idx]>>
             \o split_calls_after(split_child(node, idx, t), idx, k, t)
    ELSE split_calls(At(node.children, idx), k, t)

split_calls(node, k, t) ==
    IF is_leaf(node) THEN <<>>
    ELSE split_calls_below(node, find_index(node, k), k, t)

split_calls_grown(sp, k, t) ==
    IF sp.panic THEN <<>> ELSE split_calls(sp.node, k, t)

insert_split_calls(r, k, t) ==
    IF is_full(r, t)
    THEN <<[self |-> [NewNode EXCEPT !.children = <<r>>], idx |-> 0]>>
             \o split_calls_grown(
                    split_child([NewNode EXCEPT !.children = <<r>>], 0, t), k, t)
    ELSE split_calls(r, k, t)

\* The postcondition of split_child(i, t) on p, whose children[i] was c, with
\* result sp.
SplitPost(p, i, t, c, sp) ==
    /\ ~sp.panic
    /\ At(sp.node.children, i).keys = Take(c.keys, t - 1)
    /\ At(sp.node.children, i).vals = Take(c.vals, t - 1)
    /\ At(sp.node.keys, i) = At(c.keys, t - 1)
    /\ At(sp.node.vals, i) = At(c.vals, t - 1)
    /\ At(sp.node.children, i + 1).keys = SubSeq(c.keys, t + 1, 2 * t - 1)
    /\ At(sp.node.children, i + 1).vals = SubSeq(c.vals, t + 1, 2 * t - 1)
    /\ node_len(At(sp.node.children, i)) = t - 1
    /\ node_len(At(sp.node.children, i + 1)) = t - 1
    /\ IF is_leaf(c)
       THEN is_leaf(At(sp.node.children, i)) /\ is_leaf(At(sp.node.children, i + 1))
       ELSE /\ Len(c.children) = 2 * t
            /\ At(sp.node.children, i).children = SubSeq(c.children, 1, t)
            /\ At(sp.node.children, i + 1).children = SubSeq(c.children, t + 1, 2 * t)
    /\ node_len(sp.node) = node_len(p) + 1
    /\ Len(sp.node.vals) = Len(p.vals) + 1
    /\ Len(sp.node.children) = Len(p.children) + 1
    /\ RemoveAt(sp.node.keys, i) = p.keys
    /\ RemoveAt(sp.node.vals, i) = p.vals
    /\ RemoveAt(RemoveAt(sp.node.children, i), i) = RemoveAt(p.children, i)

SplitsPost(cs, t) ==
    \A j \in 1..Len(cs) :
        (~is_full(cs[j].self, t) /\ is_full(At(cs[j].self.children, cs[j].idx), t))
            => SplitPost(cs[j].self, cs[j].idx, t,
                         At(cs[j].self.children, cs[j].idx),
                         split_child(cs[j].self, cs[j].idx, t))

C22_SplitChild ==
    ~panicked =>
        \A k \in DeepKeys : SplitsPost(insert_split_calls(root, k, degree), degree)

\* After an insert the map is one insert away from splitting its full
\* internal root and then a full leaf below it.
SplitsTwice(cs, t) ==
    /\ Len(cs) = 2
    /\ ~is_leaf(At(cs[1].self.children, cs[1].idx))
    /\ is_leaf(At(cs[2].self.children, cs[2].idx))
    /\ \A j \in 1..2 : is_full(At(cs[j].self.children, cs[j].idx), t)

C22_Witness ==
    /\ last.op = "insert"
    /\ ~panicked
    /\ \E k \in DeepKeys : SplitsTwice(insert_split_calls(root, k, degree), degree)

\* C23: whenever remove merges two children (Case 2c, Case 3b-left, Case
\* 3b-right), each of the two has exactly t-1 keys beforehand, the merged node
\* has exactly 2t-1 keys (left keys, the parent separator, right keys; children
\* concatenated in the same order), the parent loses exactly one key and one
\* child, and assert!(pred.is_full(degree)) never fails.
\* merge_kind: which merge the invocation of Node::remove on self performs
\* once find_index has returned idx for the key k.
merge_kind(self, idx, k, t) ==
    IF idx < node_len(self) /\ At(self.keys, idx) = k
    THEN IF is_leaf(self) THEN "none"
         ELSE IF node_len(At(self.children, idx)) >= t THEN "none"
         ELSE IF node_len(At(self.children, idx + 1)) >= t THEN "none"
         ELSE "2c"
    ELSE IF is_leaf(self) THEN "none"
    ELSE IF node_len(At(self.children, idx)) + 1 # t THEN "none"
    ELSE IF idx > 0 /\ node_len(At(self.children, idx - 1)) >= t THEN "none"
    ELSE IF idx + 1 < Len(self.children)
            /\ node_len(At(self.children, idx + 1)) >= t THEN "none"
    ELSE IF idx > 0 THEN "3b-left"
    ELSE IF idx + 1 < Len(self.children) THEN "3b-right"
    ELSE "none"

\* The position of the left one of the two children a merge joins.
merge_at(kind, idx) == IF kind = "3b-left" THEN idx - 1 ELSE idx

\* What a merge of children i and i + 1 of p, with result m, has to satisfy.
MergePost(p, i, t, m) ==
    /\ node_len(At(p.children, i)) = t - 1
    /\ node_len(At(p.children, i + 1)) = t - 1
    /\ At(m.children, i).keys
          = At(p.children, i).keys \o <<At(p.keys, i)>> \o At(p.children, i + 1).keys
    /\ At(m.children, i).vals
          = At(p.children, i).vals \o <<At(p.vals, i)>> \o At(p.children, i + 1).vals
    /\ At(m.children, i).children
          = At(p.children, i).children \o At(p.children, i + 1).children
    /\ node_len(At(m.children, i)) = 2 * t - 1
    /\ is_full(At(m.children, i), t)
    /\ node_len(m) = node_len(p) - 1
    /\ Len(m.vals) = Len(p.vals) - 1
    /\ Len(m.children) = Len(p.children) - 1
    /\ m.keys = RemoveAt(p.keys, i)
    /\ m.vals = RemoveAt(p.vals, i)
    /\ RemoveAt(m.children, i) = RemoveAt(RemoveAt(p.children, i), i)

CallMerges(c, kind, t) ==
    kind # "none" =>
        MergePost(c.node, merge_at(kind, c.idx), t,
                  merge_children(c.node, merge_at(kind, c.idx)))

MergesPost(cs, t) ==
    \A j \in 1..Len(cs) :
        CallMerges(cs[j], merge_kind(cs[j].node, cs[j].idx, cs[j].k, t), t)

C23_Merges ==
    ~panicked =>
        \A k \in DeepKeys : \A g \in DanglingReads(root, k, degree) :
            MergesPost(remove_calls(root, k, degree, FALSE, g), degree)

\* The merges that the calls cs perform.
MergeKinds(cs, t) ==
    {merge_kind(cs[j].node, cs[j].idx, cs[j].k, t) : j \in 1..Len(cs)}

\* After a removal, a tree of three levels in which removals perform each of
\* the three merges.
C23_Witness ==
    /\ last.op = "remove"
    /\ ~panicked
    /\ height(root) = 3
    /\ \A kind \in {"2c", "3b-left", "3b-right"} :
          \E k \in DeepKeys :
              kind \in MergeKinds(remove_calls(root, k, degree, FALSE, k), degree)

\* C24: insert increases the height of the tree only when the root holds 2t-1
\* keys at the time of the call; then the height grows by exactly 1 and,
\* before the descent, the new root has exactly one key (the old root's
\* median) and two children of t-1 keys each; otherwise insert leaves the
\* height unchanged.
\* The height after an insert into r that returned out.
InsertHeight(r, t, out) ==
    ~out.panic =>
        height(out.root) = (IF is_full(r, t) THEN height(r) + 1 ELSE height(r))

\* The root that BTreeMap::insert hands to insert_nonfull when r was full.
GrownRoot(r, t, sp) ==
    is_full(r, t) =>
        /\ ~sp.panic
        /\ sp.node.keys = <<At(r.keys, t - 1)>>
        /\ sp.node.vals = <<At(r.vals, t - 1)>>
        /\ Len(sp.node.children) = 2
        /\ node_len(At(sp.node.children, 0)) = t - 1
        /\ node_len(At(sp.node.children, 1)) = t - 1
        /\ height(sp.node) = height(r) + 1

C24_InsertHeight ==
    ~panicked =>
        /\ GrownRoot(root, degree,
                     split_child([NewNode EXCEPT !.children = <<root>>], 0, degree))
        /\ \A k \in DeepKeys :
              InsertHeight(root, degree,
                           BTreeMap_insert(root, len, k, ValueOf(k), degree))

\* An insert found a full internal root and made a tree of three levels whose
\* root has one key above two nodes of t-1 keys.
C24_Witness ==
    /\ last.op = "insert"
    /\ last.res = None
    /\ ~panicked
    /\ height(root) = 3
    /\ node_len(root) = 1
    /\ \A c \in Range(root.children) : node_len(c) = degree - 1
    /\ \E k \in DeepKeys : ref[k] = None

\* C25: remove_entry decreases the height of the tree by exactly 1 exactly
\* when the recursive removal returned Some and left the root with zero keys
\* and a single child, and then that child becomes the root; after every
\* removal that returns Some the root is either a leaf or has at least one key.
\* rem is what Node::remove returned on the root r, out what remove_entry made
\* of it.
EmptiedRoot(rem) ==
    rem.res # None /\ node_len(rem.node) = 0 /\ Len(rem.node.children) = 1

ShrinkPost(r, rem, out) ==
    ~out.panic =>
        /\ height(out.root) = (IF EmptiedRoot(rem) THEN height(r) - 1 ELSE height(r))
        /\ EmptiedRoot(rem) => out.root = At(rem.node.children, 0)
        /\ out.res # None => (is_leaf(out.root) \/ node_len(out.root) >= 1)

RemovalShrinks(r, n, rem) == ShrinkPost(r, rem, remove_shrink(r, n, rem))

C25_RemoveHeight ==
    ~panicked =>
        \A k \in DeepKeys : \A g \in DanglingReads(root, k, degree) :
            RemovalShrinks(root, len, node_remove(root, k, degree, FALSE, g))

\* A tree of three levels from which the removal of some key returns a tree
\* of two levels.
C25_Witness ==
    /\ ~panicked
    /\ height(root) = 3
    /\ node_len(root) = 1
    /\ \E k \in DeepKeys :
          /\ ref[k] # None
          /\ ~BTreeMap_remove_entry(root, len, k, degree, k).panic
          /\ BTreeMap_remove_entry(root, len, k, degree, k).res # None
          /\ height(BTreeMap_remove_entry(root, len, k, degree, k).root) = 2

\* C26: in remove Case 3, when the child to descend into has t-1 keys, a key
\* is rotated in from the left sibling whenever that sibling exists with at
\* least t keys, even if the right sibling has at least t keys too; the right
\* sibling lends only otherwise; when neither can lend, the child is merged
\* with its left sibling if there is one and the descent continues into the
\* merged node at index i-1, and with the right sibling only when i = 0.
\* Case 3 with a child of t-1 keys: the call c did not find its key in an
\* internal node and children[idx] is short.
ShortDescent(c, t) ==
    /\ ~is_leaf(c.node)
    /\ ~(c.idx < node_len(c.node) /\ At(c.node.keys, c.idx) = c.k)
    /\ node_len(At(c.node.children, c.idx)) = t - 1

CanLend(p, i, t) ==
    i >= 0 /\ i < Len(p.children) /\ node_len(At(p.children, i)) >= t

\* What is seen on p and on the fattened f when children[i] got a key from
\* the left sibling, from the right sibling, or was merged.
LeftLent(p, i, f) ==
    /\ f.idx = i
    /\ Len(f.node.children) = Len(p.children)
    /\ node_len(At(f.node.children, i - 1)) = node_len(At(p.children, i - 1)) - 1
    /\ At(f.node.children, i).keys = <<At(p.keys, i - 1)>> \o At(p.children, i).keys
    /\ i + 1 < Len(p.children) => At(f.node.children, i + 1) = At(p.children, i + 1)

RightLent(p, i, f) ==
    /\ f.idx = i
    /\ Len(f.node.children) = Len(p.children)
    /\ node_len(At(f.node.children, i + 1)) = node_len(At(p.children, i + 1)) - 1
    /\ At(f.node.children, i).keys = Append(At(p.children, i).keys, At(p.keys, i))
    /\ i > 0 => At(f.node.children, i - 1) = At(p.children, i - 1)

MergedLeft(p, i, f) ==
    /\ f.idx = i - 1
    /\ Len(f.node.children) = Len(p.children) - 1
    /\ At(f.node.children, i - 1).keys
          = At(p.children, i - 1).keys \o <<At(p.keys, i - 1)>> \o At(p.children, i).keys

MergedRight(p, i, f) ==
    /\ i = 0
    /\ f.idx = 0
    /\ Len(f.node.children) = Len(p.children) - 1
    /\ At(f.node.children, 0).keys
          = At(p.children, 0).keys \o <<At(p.keys, 0)>> \o At(p.children, 1).keys

Case3Order(p, i, t, f, next) ==
    /\ next = At(f.node.children, f.idx)
    /\ IF CanLend(p, i - 1, t) THEN LeftLent(p, i, f)
       ELSE IF CanLend(p, i + 1, t) THEN RightLent(p, i, f)
       ELSE IF i > 0 THEN MergedLeft(p, i, f)
       ELSE IF i + 1 < Len(p.children) THEN MergedRight(p, i, f)
       ELSE TRUE

Case3Calls(cs, t) ==
    \A j \in 1..Len(cs) :
        ShortDescent(cs[j], t) =>
            /\ j < Len(cs)
            /\ Case3Order(cs[j].node, cs[j].idx, t,
                          case3_fatten(cs[j].node, cs[j].idx, t), cs[j + 1].node)

C26_Case3LeftFirst ==
    ~panicked =>
        \A k \in DeepKeys : \A g \in DanglingReads(root, k, degree) :
            Case3Calls(remove_calls(root, k, degree, FALSE, g), degree)

\* The call c meets a short child between two siblings: both can lend (tie =
\* TRUE) or neither can.
Between(c, t, tie) ==
    /\ ShortDescent(c, t)
    /\ c.idx > 0
    /\ c.idx + 1 < Len(c.node.children)
    /\ CanLend(c.node, c.idx - 1, t) = tie
    /\ CanLend(c.node, c.idx + 1, t) = tie

MeetsBetween(cs, t, tie) == \E j \in 1..Len(cs) : Between(cs[j], t, tie)

\* After a removal, a tree in which a removal meets a short child whose two
\* siblings can both lend.
C26_Witness ==
    /\ last.op = "remove"
    /\ ~panicked
    /\ \E k \in DeepKeys :
          MeetsBetween(remove_calls(root, k, degree, FALSE, k), degree, TRUE)

\* C27: when the key to remove is found at position i of an internal node, it
\* is replaced by its in-order predecessor whenever children[i] has at least t
\* keys (even if children[i+1] has at least t keys too), by its in-order
\* successor only when children[i] has t-1 keys and children[i+1] has at least
\* t, and the two children are merged only when both have t-1 keys.
\* Case 2: the call c found its key in an internal node.
FoundInternal(c) ==
    /\ ~is_leaf(c.node)
    /\ c.idx < node_len(c.node)
    /\ At(c.node.keys, c.idx) = c.k

MaxOf(S) == CHOOSE x \in S : \A y \in S : y <= x

MinOf(S) == CHOOSE x \in S : \A y \in S : x <= y

\* The call on p returned r with the key e in place of keys[i] and went into
\* children[ci] for it, without merging.
ReplacedBy(p, i, ci, e, r, next) ==
    /\ ~r.panic
    /\ r.res # None
    /\ At(r.node.keys, i) = e
    /\ node_len(r.node) = node_len(p)
    /\ Len(r.node.children) = Len(p.children)
    /\ next = At(p.children, ci)

\* The call on p merged children i and i + 1 and went into the merged node.
MergedAround(p, i, t, next) ==
    /\ node_len(At(p.children, i)) = t - 1
    /\ node_len(At(p.children, i + 1)) = t - 1
    /\ next.keys = At(p.children, i).keys \o <<At(p.keys, i)>> \o At(p.children, i + 1).keys

Case2Order(p, i, t, r, next) ==
    IF node_len(At(p.children, i)) >= t
    THEN ReplacedBy(p, i, i, MaxOf(KeysOf(At(p.children, i))), r, next)
    ELSE IF node_len(At(p.children, i + 1)) >= t
    THEN ReplacedBy(p, i, i + 1, MinOf(KeysOf(At(p.children, i + 1))), r, next)
    ELSE MergedAround(p, i, t, next)

Case2Calls(cs, t, g) ==
    \A j \in 1..Len(cs) :
        FoundInternal(cs[j]) =>
            /\ j < Len(cs)
            /\ Case2Order(cs[j].node, cs[j].idx, t,
                          node_remove(cs[j].node, cs[j].k, t, cs[j].borrowed, g),
                          cs[j + 1].node)

TookOut(ch, e, sub) ==
    /\ ~sub.panic
    /\ sub.res # None
    /\ Unwrap(sub.res) = <<e, Unwrap(BTreeMap_get(ch, e))>>
    /\ total_keys(sub.node) = total_keys(ch) - 1
    /\ KeysOf(sub.node) = KeysOf(ch) \ {e}

SwappedIn(p, i, ci, e, sub, r) ==
    /\ ~r.panic
    /\ At(r.node.keys, i) = e
    /\ At(r.node.vals, i) = Unwrap(sub.res)[2]
    /\ At(r.node.children, ci) = sub.node
    /\ r.res = Some(<<At(p.keys, i), At(p.vals, i)>>)

SwapExtremal(p, i, ci, e, sub, r) ==
    TookOut(At(p.children, ci), e, sub) /\ SwappedIn(p, i, ci, e, sub, r)

Case2Swap(c, t, g) ==
    IF node_len(At(c.node.children, c.idx)) >= t
    THEN SwapExtremal(c.node, c.idx, c.idx,
                      MaxOf(KeysOf(At(c.node.children, c.idx))),
                      node_remove(At(c.node.children, c.idx),
                                  MaxOf(KeysOf(At(c.node.children, c.idx))),
                                  t, TRUE, g),
                      node_remove(c.node, c.k, t, c.borrowed, g))
    ELSE IF node_len(At(c.node.children, c.idx + 1)) >= t
    THEN SwapExtremal(c.node, c.idx, c.idx + 1,
                      MinOf(KeysOf(At(c.node.children, c.idx + 1))),
                      node_remove(At(c.node.children, c.idx + 1),
                                  MinOf(KeysOf(At(c.node.children, c.idx + 1))),
                                  t, TRUE, g),
                      node_remove(c.node, c.k, t, c.borrowed, g))
    ELSE TRUE

Case2Swaps(cs, t, g) ==
    \A j \in 1..Len(cs) : FoundInternal(cs[j]) => Case2Swap(cs[j], t, g)

RotationFrame(p, s, q) ==
    /\ node_len(q) = node_len(p)
    /\ Len(q.vals) = Len(p.vals)
    /\ Len(q.children) = Len(p.children)
    /\ RemoveAt(q.keys, s) = RemoveAt(p.keys, s)
    /\ RemoveAt(q.vals, s) = RemoveAt(p.vals, s)
    /\ RemoveAt(RemoveAt(q.children, s), s) = RemoveAt(RemoveAt(p.children, s), s)
    /\ Iterate(q) = Iterate(p)

RotatedFromLeft(p, i, t, q) ==
    /\ At(q.children, i).keys = <<At(p.keys, i - 1)>> \o At(p.children, i).keys
    /\ At(q.children, i).vals = <<At(p.vals, i - 1)>> \o At(p.children, i).vals
    /\ At(q.keys, i - 1) = Last(At(p.children, i - 1).keys)
    /\ At(q.vals, i - 1) = Last(At(p.children, i - 1).vals)
    /\ At(q.children, i - 1).keys = Front(At(p.children, i - 1).keys)
    /\ At(q.children, i - 1).vals = Front(At(p.children, i - 1).vals)
    /\ IF is_leaf(At(p.children, i - 1))
       THEN /\ At(q.children, i).children = At(p.children, i).children
            /\ is_leaf(At(q.children, i - 1))
       ELSE /\ At(q.children, i).children
                  = <<Last(At(p.children, i - 1).children)>> \o At(p.children, i).children
            /\ At(q.children, i - 1).children = Front(At(p.children, i - 1).children)
    /\ node_len(At(q.children, i)) = t
    /\ node_len(At(q.children, i - 1)) = node_len(At(p.children, i - 1)) - 1
    /\ node_len(At(q.children, i - 1)) >= t - 1
    /\ RotationFrame(p, i - 1, q)

RotatedFromRight(p, i, t, q) ==
    /\ At(q.children, i).keys = Append(At(p.children, i).keys, At(p.keys, i))
    /\ At(q.children, i).vals = Append(At(p.children, i).vals, At(p.vals, i))
    /\ At(q.keys, i) = At(At(p.children, i + 1).keys, 0)
    /\ At(q.vals, i) = At(At(p.children, i + 1).vals, 0)
    /\ At(q.children, i + 1).keys = Drop(At(p.children, i + 1).keys, 1)
    /\ At(q.children, i + 1).vals = Drop(At(p.children, i + 1).vals, 1)
    /\ IF is_leaf(At(p.children, i + 1))
       THEN /\ At(q.children, i).children = At(p.children, i).children
            /\ is_leaf(At(q.children, i + 1))
       ELSE /\ At(q.children, i).children
                  = Append(At(p.children, i).children,
                           At(At(p.children, i + 1).children, 0))
            /\ At(q.children, i + 1).children = Drop(At(p.children, i + 1).children, 1)
    /\ node_len(At(q.children, i)) = t
    /\ node_len(At(q.children, i + 1)) = node_len(At(p.children, i + 1)) - 1
    /\ node_len(At(q.children, i + 1)) >= t - 1
    /\ RotationFrame(p, i, q)

Rotation(p, i, t, f) ==
    IF CanLend(p, i - 1, t) THEN RotatedFromLeft(p, i, t, f.node)
    ELSE IF CanLend(p, i + 1, t) THEN RotatedFromRight(p, i, t, f.node)
    ELSE TRUE

Rotations(cs, t) ==
    \A j \in 1..Len(cs) :
        ShortDescent(cs[j], t) =>
            Rotation(cs[j].node, cs[j].idx, t, case3_fatten(cs[j].node, cs[j].idx, t))

C29_Rotation ==
    ~panicked =>
        \A k \in DeepKeys : \A g \in DanglingReads(root, k, degree) :
            Rotations(remove_calls(root, k, degree, FALSE, g), degree)

\* The call c rotates a key in from an internal sibling: the left one (side =
\* -1) or, the left one being unable to lend, the right one (side = 1).
RotatesInternal(c, t, side) ==
    /\ ShortDescent(c, t)
    /\ CanLend(c.node, c.idx + side, t)
    /\ side = 1 => ~CanLend(c.node, c.idx - 1, t)
    /\ ~is_leaf(At(c.node.children, c.idx + side))

MeetsRotation(cs, t, side) == \E j \in 1..Len(cs) : RotatesInternal(cs[j], t, side)

\* A tree of three levels in which the removal of some key rotates a key and
\* a child in from an internal left sibling.
C29_Witness ==
    /\ ~panicked
    /\ height(root) = 3
    /\ \E k \in DeepKeys :
          /\ ref[k] # None
          /\ MeetsRotation(remove_calls(root, k, degree, FALSE, k), degree, -1)

\* C30: Iter::new on a root that has no keys produces an iterator whose first
\* next() returns end; on any other root the stack holds exactly the nodes on
\* the path from the root to the leftmost leaf, each with index 0, so the
\* first next() yields the smallest key of the tree.
\* The nodes from n down to its leftmost leaf.
RECURSIVE LeftPath(_)
LeftPath(n) == IF is_leaf(n) THEN <<n>> ELSE <<n>> \o LeftPath(At(n.children, 0))

\* it is the iterator Iter::new made for r and first what its first next()
\* returned.
IterStart(r, it, first) ==
    IF node_len(r) = 0
    THEN ~first.panic /\ first.item = None
    ELSE /\ it.nodes = LeftPath(r)
         /\ it.indices = [i \in 1..Len(LeftPath(r)) |-> 0]
         /\ ~first.panic
         /\ first.item # None
         /\ Unwrap(first.item)[1] = MinOf(KeysOf(r))

IterFrames(it, r) ==
    /\ Len(it.nodes) = Len(it.indices)
    /\ Len(it.nodes) <= height(r)
    /\ Len(it.nodes) > 0 => it.nodes[1] \in Subtrees(r)
    /\ \A i \in 1..Len(it.nodes) : it.indices[i] < node_len(it.nodes[i])
    /\ \A i \in 1..(Len(it.nodes) - 1) :
          \E c \in Range(it.nodes[i].children) : it.nodes[i + 1] \in Subtrees(c)

\* next() returned end: the stacks are empty and stay so.
IterEnded(it, step) ==
    /\ Len(it.nodes) = 0
    /\ step.it = it
    /\ ~Iter_next(step.it).panic
    /\ Iter_next(step.it).item = None
    /\ Iter_next(step.it).it = it

RECURSIVE IterRun(_, _)

\* step is what next() returned on it.
IterStep(it, r, step) ==
    /\ ~step.panic
    /\ IF step.item = None THEN IterEnded(it, step) ELSE IterRun(step.it, r)

\* Every state of the iterator from it to the end of the iteration.
IterRun(it, r) == IterFrames(it, r) /\ IterStep(it, r, Iter_next(it))

C31_IterStacks ==
    ~panicked => IterRun(Iter_new(root), root)

\* After a removal, a tree of three levels with keys in its root, which the
\* iteration walks through entry by entry.
C31_Witness ==
    /\ last.op = "remove"
    /\ ~panicked
    /\ height(root) = 3
    /\ node_len(root) > 0
    /\ Len(Iterate(root).items) = total_keys(root)
    /\ total_keys(root) >= 8

\* ------------------------------------------------------------ find_index
\* find_index on its own: a root leaf holding any set of at most 2t-1 keys of
\* 1..MaxFindKey in ascending order, searched for any key of 0..MaxFindKey+1.
MaxFindKey == 7

FindKeys == 1..MaxFindKey

ProbeKeys == 0..(MaxFindKey + 1)

\* The keys of S in ascending order.
RECURSIVE Ascending(_)
Ascending(S) ==
    IF S = {} THEN <<>> ELSE <<MinOf(S)>> \o Ascending(S \ {MinOf(S)})

LeafOf(S) ==
    [keys |-> Ascending(S), vals |-> [i \in 1..Cardinality(S) |-> FALSE],
     children |-> <<>>]

InitFind ==
    /\ degree = MaxDegree
    /\ \E S \in SUBSET FindKeys :
          /\ Cardinality(S) <= 2 * MaxDegree - 1
          /\ root = LeafOf(S)
          /\ len = Cardinality(S)
          /\ ref = [k \in DeepKeys |-> IF k \in S THEN Some(FALSE) ELSE None]
    /\ panicked = FALSE
    /\ last = NoCall
    /\ twin = [map |-> with_degree(MaxDegree), panic |-> FALSE]
    /\ storage = NoStorage

\* The number of iterations of the loop of find_index.
RECURSIVE find_steps(_, _, _, _, _)
find_steps(keys, k, left, right, size) ==
    IF left < right
    THEN IF At(keys, left + (size \div 2)) = k THEN 1
         ELSE IF At(keys, left + (size \div 2)) < k
         THEN 1 + find_steps(keys, k, left + (size \div 2) + 1, right,
                             right - (left + (size \div 2) + 1))
         ELSE 1 + find_steps(keys, k, left, left + (size \div 2), size \div 2)
    ELSE 0

\* root.find_index(&k) is called; exp records the iterations of its loop.
FindIndex(k) ==
    /\ last' = [op |-> "find_index", k |-> k, v |-> FALSE,
                res |-> Some(find_index(root, k)),
                exp |-> Some(find_steps(root.keys, k, 0, node_len(root),
                                        node_len(root)))]
    /\ UNCHANGED <<root, len, degree, panicked, ref, twin, storage>>

NextFind == \E k \in ProbeKeys : FindIndex(k)

SpecFind == InitFind /\ [][NextFind]_vars

\* C35: for a node whose keys are strictly ascending and any key k,
\* find_index(k) terminates and returns the index of k when k is among the
\* keys, and otherwise the number of keys smaller than k (the key count n when
\* k exceeds all keys, 0 for an empty node).
StrictlyAscending(keys) ==
    \A i \in 1..(Len(keys) - 1) : keys[i] < keys[i + 1]

SmallerThan(keys, k) == Cardinality({i \in 1..Len(keys) : keys[i] < k})

C35_FindIndex ==
    (last.op = "find_index" /\ StrictlyAscending(root.keys)) =>
        /\ Unwrap(last.exp) <= node_len(root)
        /\ Unwrap(last.res) = SmallerThan(root.keys, last.k)
        /\ (\E i \in 1..node_len(root) : root.keys[i] = last.k)
              => (/\ Unwrap(last.res) < node_len(root)
                  /\ At(root.keys, Unwrap(last.res)) = last.k)
        /\ (node_len(root) > 0 /\ last.k > Last(root.keys))
              => Unwrap(last.res) = node_len(root)
        /\ node_len(root) = 0 => Unwrap(last.res) = 0

\* A search of a node of 2t-1 keys for a key of its upper half, which takes
\* more than one iteration.
C35_Witness ==
    /\ last.op = "find_index"
    /\ node_len(root) = 2 * MaxDegree - 1
    /\ Unwrap(last.exp) > 1
    /\ Unwrap(last.res) < node_len(root)
    /\ At(root.keys, Unwrap(last.res)) = last.k
    /\ Unwrap(last.res) >= MaxDegree

\* ---------------------------------------------- the persistent variant
\* src/tree: a node is [id, keys, vals, children] with children a Vec of
\* identifiers; every node lives in a Storage under an identifier.  The
\* storage is the sequence data: data[id] is the bytes last written under id
\* (None when nothing was written yet), and alloc_id hands out
\* Len(data) + 1.  An operation runs against s = [data, fail, fired]: the
\* fail-th storage call from now fails (0: none does), fired tells that it
\* has, held lists the nodes the operation has in memory.
MaxTreeKey == 6
MaxFault == 8
MaxIds == 5
MaxFailures == 1

TreeKeys == 1..MaxTreeKey

Faults == 0..MaxFault

Run(data, fail) == [data |-> data, fail |-> fail, fired |-> FALSE, held |-> <<>>]

\* The next storage call fails.
Fails(s) == s.fail = 1

Failed(s) == [s EXCEPT !.fail = 0, !.fired = TRUE]

Passed(s) == [s EXCEPT !.fail = IF @ > 0 THEN @ - 1 ELSE 0]

\* Storage::alloc_id: a fresh identifier with no bytes yet.
alloc_id(s) ==
    IF Fails(s) THEN [err |-> TRUE, s |-> Failed(s), id |-> 0]
    ELSE [err |-> FALSE, s |-> [Passed(s) EXCEPT !.data = Append(@, None)],
          id |-> Len(s.data) + 1]

\* bincode::serialize / deserialize of a Node: the fields in declaration order.
serialize(node) == <<node.id, node.keys, node.vals, node.children>>

deserialize(ser) ==
    [id |-> ser[1], keys |-> ser[2], vals |-> ser[3], children |-> ser[4]]

\* write_handle(id) + write_all: the bytes under id are replaced, or the call
\* fails and they stay.
write_bytes(id, ser, s) ==
    IF Fails(s) THEN [err |-> TRUE, s |-> Failed(s)]
    ELSE [err |-> FALSE, s |-> [Passed(s) EXCEPT !.data[id] = Some(ser)]]

\* Node::write: the node goes under the id it carries.
Node_write(node, s) == write_bytes(node.id, serialize(node), s)

\* Node::read: read_handle(id) + read_to_end, then deserialize; no bytes under
\* id is a deserialization error.
Node_read(id, s) ==
    IF Fails(s) THEN [err |-> TRUE, s |-> Failed(s), node |-> None]
    ELSE IF s.data[id] = None THEN [err |-> TRUE, s |-> Passed(s), node |-> None]
    ELSE [err |-> FALSE, s |-> Passed(s),
          node |-> Some(deserialize(Unwrap(s.data[id])))]

EmptyNode(id) == [id |-> id, keys |-> <<>>, vals |-> <<>>, children |-> <<>>]

\* The node after a successful alloc_id is written at once.
Node_new_write(a) ==
    [err |-> Node_write(EmptyNode(a.id), a.s).err,
     s |-> Node_write(EmptyNode(a.id), a.s).s,
     node |-> Some(EmptyNode(a.id))]

\* Node::new(storage).
Node_new(s) ==
    IF alloc_id(s).err THEN [err |-> TRUE, s |-> alloc_id(s).s, node |-> None]
    ELSE Node_new_write(alloc_id(s))

\* NodeWriteHandle::close: the handle's node goes under the handle's id.
NodeWriteHandle_close(id, node, s) == write_bytes(id, serialize(node), s)

\* Drop for NodeWriteHandle: close().unwrap().
NodeWriteHandle_drop(id, node, s) ==
    [panic |-> NodeWriteHandle_close(id, node, s).err,
     s |-> NodeWriteHandle_close(id, node, s).s]

\* NodeWriteHandle::create: the handle built around the new id is dropped
\* when create returns.
NodeWriteHandle_create(node, s) ==
    IF alloc_id(s).err
    THEN [err |-> TRUE, panic |-> FALSE, s |-> alloc_id(s).s, id |-> 0]
    ELSE [err |-> FALSE,
          panic |-> NodeWriteHandle_drop(alloc_id(s).id, node, alloc_id(s).s).panic,
          s |-> NodeWriteHandle_drop(alloc_id(s).id, node, alloc_id(s).s).s,
          id |-> alloc_id(s).id]

\* BTree::with_degree and BTree::new.  The node handed to create is the one
\* Node::new of tree/node.rs makes.
BTree_with_degree(s, t) ==
    IF Node_new(s).err
    THEN [err |-> TRUE, panic |-> FALSE, s |-> Node_new(s).s, root |-> 0,
          len |-> 0, degree |-> t]
    ELSE [err |-> NodeWriteHandle_create(Unwrap(Node_new(s).node), Node_new(s).s).err,
          panic |-> NodeWriteHandle_create(Unwrap(Node_new(s).node), Node_new(s).s).panic,
          s |-> NodeWriteHandle_create(Unwrap(Node_new(s).node), Node_new(s).s).s,
          root |-> NodeWriteHandle_create(Unwrap(Node_new(s).node), Node_new(s).s).id,
          len |-> 0, degree |-> t]

BTree_new(s) == BTree_with_degree(s, DEFAULT_DEGREE)

\* The operation holds node in memory as the node of identifier at (the
\* identifier it was read from or made under); held lists these in order,
\* the latest entry of an identifier being the state the operation computed.
Holds(s, at, node) == [s EXCEPT !.held = Append(@, <<at, node>>)]

\* The tree names a node by its identifier where the in-memory map names the
\* node itself (children[idx].is_full(degree), children[idx].len(),
\* self.root.is_full(degree)): the node meant is the one stored under it.
Stored(id, s) == deserialize(Unwrap(s.data[id]))

\* split_child from its three writes on: self, left and right in that order,
\* the first failure returns.
split_child_writes(self, left, right, s) ==
    IF Node_write(self, s).err THEN Node_write(self, s)
    ELSE IF Node_write(left, Node_write(self, s).s).err
    THEN Node_write(left, Node_write(self, s).s)
    ELSE Node_write(right, Node_write(left, Node_write(self, s).s).s)

\* split_child once left was read and right was made.
split_child_moves(at, self, idx, t, lid, left, right, s) ==
    IF Len(left.keys) < t
    THEN [err |-> FALSE, panic |-> TRUE, s |-> s, self |-> self]
    ELSE LET right2 == [right EXCEPT
                          !.vals = Drop(left.vals, t),
                          !.keys = Drop(left.keys, t),
                          !.children = IF ~is_leaf(left)
                                       THEN Drop(left.children, t) ELSE <<>>]
             left2 == [left EXCEPT
                          !.vals = Take(left.vals, t - 1),
                          !.keys = Take(left.keys, t - 1),
                          !.children = IF ~is_leaf(left)
                                       THEN Take(left.children, t) ELSE @]
             self2 == [self EXCEPT
                          !.keys = InsertAt(@, idx, At(left.keys, t - 1)),
                          !.vals = InsertAt(@, idx, At(left.vals, t - 1)),
                          !.children = InsertAt(@, idx + 1, right.id)]
             held == Holds(Holds(Holds(s, at, self2), lid, left2),
                           right.id, right2)
         IN  [err |-> split_child_writes(self2, left2, right2, held).err,
              panic |-> FALSE,
              s |-> split_child_writes(self2, left2, right2, held).s,
              self |-> self2]

\* split_child once left was read.
split_child_right(at, self, idx, t, lid, left, r) ==
    IF r.err THEN [err |-> TRUE, panic |-> FALSE, s |-> r.s, self |-> self]
    ELSE split_child_moves(at, self, idx, t, lid, left, Unwrap(r.node), r.s)

\* Node::split_child of tree/node.rs; self is what the caller's node has
\* become when the call returns, with or without an error.
tree_split_child(at, self, idx, t, s) ==
    IF Node_read(At(self.children, idx), s).err
    THEN [err |-> TRUE, panic |-> FALSE,
          s |-> Node_read(At(self.children, idx), s).s, self |-> self]
    ELSE split_child_right(at, self, idx, t, At(self.children, idx),
             Unwrap(Node_read(At(self.children, idx), s).node),
             Node_new(Node_read(At(self.children, idx), s).s))

\* insert_nonfull at a leaf: the edit, then node.write(storage)?.
tree_insert_leaf(at, node, idx, k, v, s) ==
    IF idx < node_len(node) /\ k = At(node.keys, idx)
    THEN LET node2 == [node EXCEPT !.vals = SetAt(@, idx, v)]
         IN  [err |-> Node_write(node2, Holds(s, at, node2)).err,
              panic |-> FALSE,
              s |-> Node_write(node2, Holds(s, at, node2)).s,
              res |-> Some(At(node.vals, idx))]
    ELSE LET node2 == [node EXCEPT !.keys = InsertAt(@, idx, k),
                                   !.vals = InsertAt(@, idx, v)]
         IN  [err |-> Node_write(node2, Holds(s, at, node2)).err,
              panic |-> FALSE,
              s |-> Node_write(node2, Holds(s, at, node2)).s,
              res |-> None]

RECURSIVE tree_insert_loop(_, _, _, _, _, _)

\* The loop continues in the node read from children[idx].
tree_insert_read(node, idx, k, v, t, rd) ==
    IF rd.err THEN [err |-> TRUE, panic |-> FALSE, s |-> rd.s, res |-> None]
    ELSE tree_insert_loop(At(node.children, idx), Unwrap(rd.node), k, v, t, rd.s)

tree_insert_below(node, idx, k, v, t, s) ==
    tree_insert_read(node, idx, k, v, t, Node_read(At(node.children, idx), s))

\* After node.split_child(idx, degree, storage); whose Result is dropped:
\* keys[idx] is compared with k whatever the split did.
tree_insert_split(sp, idx, k, v, t) ==
    IF sp.panic \/ idx >= node_len(sp.self)
    THEN [err |-> FALSE, panic |-> TRUE, s |-> sp.s, res |-> None]
    ELSE tree_insert_below(sp.self,
                           IF At(sp.self.keys, idx) < k THEN idx + 1 ELSE idx,
                           k, v, t, sp.s)

tree_insert_descend(at, node, idx, k, v, t, s) ==
    IF is_full(Stored(At(node.children, idx), s), t)
    THEN tree_insert_split(tree_split_child(at, node, idx, t, s), idx, k, v, t)
    ELSE tree_insert_below(node, idx, k, v, t, s)

\* The loop of insert_nonfull, one iteration per level.
tree_insert_loop(at, node, k, v, t, s) ==
    IF is_leaf(node)
    THEN tree_insert_leaf(at, node, find_index(node, k), k, v, s)
    ELSE tree_insert_descend(at, node, find_index(node, k), k, v, t, s)

\* Node::insert_nonfull of tree/node.rs.
tree_insert_nonfull(at, self, k, v, t, s) ==
    IF is_full(self, t)
    THEN [err |-> FALSE, panic |-> TRUE, s |-> s, res |-> None]
    ELSE tree_insert_loop(at, self, k, v, t, s)

\* What insert returns to its caller.
insert_result(ins, newroot, l) ==
    [err |-> ins.err, panic |-> ins.panic, s |-> ins.s, root |-> newroot,
     len |-> IF ~ins.err /\ ~ins.panic /\ ins.res = None THEN l + 1 ELSE l,
     res |-> ins.res]

\* insert once the new root has split the old one: a failure of the split
\* ends the call with the error.
insert_after_split(sp, newroot, l, k, v, t) ==
    IF sp.err \/ sp.panic
    THEN [err |-> sp.err, panic |-> sp.panic, s |-> sp.s, root |-> newroot,
          len |-> l, res |-> None]
    ELSE insert_result(tree_insert_nonfull(newroot, sp.self, k, v, t, sp.s),
                       newroot, l)

\* insert over a full root: a node made by Node::new takes the old root as
\* its only child and splits it.
insert_grow(r, l, k, v, t, nr) ==
    IF nr.err
    THEN [err |-> TRUE, panic |-> FALSE, s |-> nr.s, root |-> r, len |-> l,
          res |-> None]
    ELSE insert_after_split(
             tree_split_child(Unwrap(nr.node).id,
                              [Unwrap(nr.node) EXCEPT !.children = <<r>>],
                              0, t, nr.s),
             Unwrap(nr.node).id, l, k, v, t)

\* BTree::insert of tree/mod.rs, whose body is that of the in-memory map:
\* self.root is the node stored under the root identifier.
BTree_insert(r, l, k, v, t, s) ==
    IF is_full(Stored(r, s), t)
    THEN insert_grow(r, l, k, v, t, Node_new(s))
    ELSE insert_result(tree_insert_nonfull(r, Stored(r, s), k, v, t, s), r, l)

\* What a step of remove returns: the error or panic it ended with, the
\* storage, the caller's node as the step left it, and the entry.
Done(s, self, res) ==
    [err |-> FALSE, panic |-> FALSE, s |-> s, self |-> self, res |-> res]

Erred(s, self) ==
    [err |-> TRUE, panic |-> FALSE, s |-> s, self |-> self, res |-> None]

Panicked(s, self) ==
    [err |-> FALSE, panic |-> TRUE, s |-> s, self |-> self, res |-> None]

\* a.write(storage)?; b.write(storage)?; ... in order, up to the first failure.
RECURSIVE persist(_, _)
persist(nodes, s) ==
    IF nodes = <<>> THEN [err |-> FALSE, s |-> s]
    ELSE IF Node_write(Head(nodes), s).err THEN Node_write(Head(nodes), s)
    ELSE persist(Tail(nodes), Node_write(Head(nodes), s).s)

\* max_key / min_key of tree/node.rs, children being the nodes stored under
\* the identifiers: the key the reference points at, None when the final
\* unwrap fails.
RECURSIVE tree_max_key(_, _)
tree_max_key(node, s) ==
    IF ~is_leaf(node) /\ ~node_is_empty(Stored(Last(node.children), s))
    THEN tree_max_key(Stored(Last(node.children), s), s)
    ELSE IF node_is_empty(node) THEN None ELSE Some(Last(node.keys))

RECURSIVE tree_min_key(_, _)
tree_min_key(node, s) ==
    IF ~is_leaf(node) /\ ~node_is_empty(Stored(At(node.children, 0), s))
    THEN tree_min_key(Stored(At(node.children, 0), s), s)
    ELSE IF node_is_empty(node) THEN None ELSE Some(At(node.keys, 0))

RECURSIVE tree_remove(_, _, _, _, _)

\* Case 1: the entry leaves the leaf, the leaf is written.
tree_remove_leaf(at, self, idx, s) ==
    LET self2 == [self EXCEPT !.keys = RemoveAt(@, idx),
                              !.vals = RemoveAt(@, idx)]
        w == Node_write(self2, Holds(s, at, self2))
    IN  IF w.err THEN Erred(w.s, self2)
        ELSE Done(w.s, self2, Some(<<At(self.keys, idx), At(self.vals, idx)>>))

\* Case 2a / 2b after the removal from the child returned: the entry goes
\* into keys[idx] / vals[idx], then self and the child are written.
tree_swap_in(at, self, idx, cid, inner) ==
    LET self2 == [self EXCEPT !.keys = SetAt(@, idx, Unwrap(inner.res)[1]),
                              !.vals = SetAt(@, idx, Unwrap(inner.res)[2])]
        w == persist(<<self2, inner.self>>,
                     Holds(Holds(inner.s, at, self2), cid, inner.self))
    IN  IF w.err THEN Erred(w.s, self2)
        ELSE Done(w.s, self2, Some(<<At(self.keys, idx), At(self.vals, idx)>>))

\* Case 2a: pred.remove(..).unwrap() takes the Ok value out of the Result.
tree_case2a_swap(at, self, idx, cid, inner) ==
    IF inner.panic \/ inner.err \/ inner.res = None
    THEN Panicked(inner.s, self)
    ELSE tree_swap_in(at, self, idx, cid, inner)

tree_case2a_pred(at, self, idx, t, cid, pred, s) ==
    IF tree_max_key(pred, s) = None THEN Panicked(s, self)
    ELSE tree_case2a_swap(at, self, idx, cid,
             tree_remove(cid, pred, Unwrap(tree_max_key(pred, s)), t, s))

tree_case2a(at, self, idx, t, s) ==
    IF Node_read(At(self.children, idx), s).err
    THEN Erred(Node_read(At(self.children, idx), s).s, self)
    ELSE tree_case2a_pred(at, self, idx, t, At(self.children, idx),
             Unwrap(Node_read(At(self.children, idx), s).node),
             Node_read(At(self.children, idx), s).s)

\* Case 2b: succ.remove(..)?.unwrap() returns the error and unwraps the
\* Option.
tree_case2b_swap(at, self, idx, cid, inner) ==
    IF inner.panic THEN Panicked(inner.s, self)
    ELSE IF inner.err THEN Erred(inner.s, self)
    ELSE IF inner.res = None THEN Panicked(inner.s, self)
    ELSE tree_swap_in(at, self, idx, cid, inner)

tree_case2b_succ(at, self, idx, t, cid, succ, s) ==
    IF tree_min_key(succ, s) = None THEN Panicked(s, self)
    ELSE tree_case2b_swap(at, self, idx, cid,
             tree_remove(cid, succ, Unwrap(tree_min_key(succ, s)), t, s))

tree_case2b(at, self, idx, t, s) ==
    IF Node_read(At(self.children, idx + 1), s).err
    THEN Erred(Node_read(At(self.children, idx + 1), s).s, self)
    ELSE tree_case2b_succ(at, self, idx, t, At(self.children, idx + 1),
             Unwrap(Node_read(At(self.children, idx + 1), s).node),
             Node_read(At(self.children, idx + 1), s).s)

\* What the removal below returned, in the frame of self.
tree_below(self, inner) == [inner EXCEPT !.self = self]

\* Case 2c once both children were read: pred takes the separator and succ,
\* the three nodes are written, the removal goes on in pred.
tree_case2c_merge(at, self2, k, t, key, val, pid, pred, succ, s) ==
    LET pred2 == [pred EXCEPT !.keys = (@ \o <<key>>) \o succ.keys,
                              !.vals = (@ \o <<val>>) \o succ.vals,
                              !.children = @ \o succ.children]
        succ2 == [succ EXCEPT !.keys = <<>>, !.vals = <<>>, !.children = <<>>]
        w == persist(<<self2, pred2, succ2>>,
                     Holds(Holds(Holds(s, at, self2), pid, pred2),
                           succ.id, succ2))
    IN  IF ~is_full(pred2, t) THEN Panicked(s, self2)
        ELSE IF w.err THEN Erred(w.s, self2)
        ELSE tree_below(self2, tree_remove(pid, pred2, k, t, w.s))

tree_case2c_pred(at, self2, k, t, key, val, pid, succ, rp) ==
    IF rp.err THEN Erred(rp.s, self2)
    ELSE tree_case2c_merge(at, self2, k, t, key, val, pid, Unwrap(rp.node),
                           succ, rp.s)

tree_case2c_succ(at, self2, k, t, key, val, pid, rs) ==
    IF rs.err THEN Erred(rs.s, self2)
    ELSE tree_case2c_pred(at, self2, k, t, key, val, pid, Unwrap(rs.node),
                          Node_read(pid, rs.s))

tree_case2c(at, self, idx, k, t, s) ==
    tree_case2c_succ(at,
        [self EXCEPT !.keys = RemoveAt(@, idx), !.vals = RemoveAt(@, idx),
                     !.children = RemoveAt(@, idx + 1)],
        k, t, At(self.keys, idx), At(self.vals, idx), At(self.children, idx),
        Node_read(At(self.children, idx + 1), s))

\* Case 2: the key is in this internal node.
tree_remove_internal(at, self, idx, k, t, s) ==
    IF node_len(Stored(At(self.children, idx), s)) >= t
    THEN tree_case2a(at, self, idx, t, s)
    ELSE IF node_len(Stored(At(self.children, idx + 1), s)) >= t
    THEN tree_case2b(at, self, idx, t, s)
    ELSE tree_case2c(at, self, idx, k, t, s)

\* What the fattening of children[idx] leaves: the node, the index to
\* descend at, the storage, and whether a `?` returned an error.
Fattened(err, s, self, idx) == [err |-> err, s |-> s, self |-> self, idx |-> idx]

\* Case 3a, left sibling: once mid and left were read.
tree_rotate_left(at, self, idx, mid, left, s) ==
    LET self2 == [self EXCEPT !.keys = SetAt(@, idx - 1, Last(left.keys)),
                              !.vals = SetAt(@, idx - 1, Last(left.vals))]
        mid2 == [mid EXCEPT
                   !.keys = <<At(self.keys, idx - 1)>> \o @,
                   !.vals = <<At(self.vals, idx - 1)>> \o @,
                   !.children = IF ~is_leaf(left)
                                THEN <<Last(left.children)>> \o @ ELSE @]
        left2 == [left EXCEPT
                   !.keys = Front(@), !.vals = Front(@),
                   !.children = IF ~is_leaf(left) THEN Front(@) ELSE @]
        w == persist(<<self2, left2, mid2>>,
                     Holds(Holds(Holds(s, at, self2),
                                 At(self.children, idx - 1), left2),
                           At(self.children, idx), mid2))
    IN  Fattened(w.err, w.s, self2, idx)

\* Case 3a, right sibling: once mid and right were read.
tree_rotate_right(at, self, idx, mid, right, s) ==
    LET self2 == [self EXCEPT !.keys = SetAt(@, idx, At(right.keys, 0)),
                              !.vals = SetAt(@, idx, At(right.vals, 0))]
        mid2 == [mid EXCEPT
                   !.keys = Append(@, At(self.keys, idx)),
                   !.vals = Append(@, At(self.vals, idx)),
                   !.children = IF ~is_leaf(right)
                                THEN Append(@, At(right.children, 0)) ELSE @]
        right2 == [right EXCEPT
                   !.keys = RemoveAt(@, 0), !.vals = RemoveAt(@, 0),
                   !.children = IF ~is_leaf(right) THEN RemoveAt(@, 0) ELSE @]
        w == persist(<<self2, right2, mid2>>,
                     Holds(Holds(Holds(s, at, self2),
                                 At(self.children, idx + 1), right2),
                           At(self.children, idx), mid2))
    IN  Fattened(w.err, w.s, self2, idx)

\* Case 3b, into the left sibling: once mid and left were read.
tree_merge_left(at, self, idx, mid, left, s) ==
    LET self2 == [self EXCEPT !.keys = RemoveAt(@, idx - 1),
                              !.vals = RemoveAt(@, idx - 1),
                              !.children = RemoveAt(@, idx)]
        left2 == [left EXCEPT
                   !.keys = (@ \o <<At(self.keys, idx - 1)>>) \o mid.keys,
                   !.vals = (@ \o <<At(self.vals, idx - 1)>>) \o mid.vals,
                   !.children = @ \o mid.children]
        mid2 == [mid EXCEPT !.keys = <<>>, !.vals = <<>>, !.children = <<>>]
        w == persist(<<self2, mid2, left2>>,
                     Holds(Holds(Holds(s, at, self2),
                                 At(self.children, idx), mid2),
                           At(self.children, idx - 1), left2))
    IN  Fattened(w.err, w.s, self2, IF w.err THEN idx ELSE idx - 1)

\* Case 3b, the right sibling into mid: once mid and right were read.
tree_merge_right(at, self, idx, mid, right, s) ==
    LET self2 == [self EXCEPT !.keys = RemoveAt(@, idx),
                              !.vals = RemoveAt(@, idx),
                              !.children = RemoveAt(@, idx + 1)]
        mid2 == [mid EXCEPT
                   !.keys = (@ \o <<At(self.keys, idx)>>) \o right.keys,
                   !.vals = (@ \o <<At(self.vals, idx)>>) \o right.vals,
                   !.children = @ \o right.children]
        right2 == [right EXCEPT !.keys = <<>>, !.vals = <<>>, !.children = <<>>]
        w == persist(<<self2, right2, mid2>>,
                     Holds(Holds(Holds(s, at, self2),
                                 At(self.children, idx + 1), right2),
                           At(self.children, idx), mid2))
    IN  Fattened(w.err, w.s, self2, idx)

\* The branch of Case 3 that applies, as a name.
tree_case3_kind(self, idx, t, s) ==
    IF node_len(Stored(At(self.children, idx), s)) + 1 # t THEN "none"
    ELSE IF idx > 0 /\ node_len(Stored(At(self.children, idx - 1), s)) >= t
    THEN "rotate_left"
    ELSE IF /\ idx + 1 < Len(self.children)
            /\ node_len(Stored(At(self.children, idx + 1), s)) >= t
    THEN "rotate_right"
    ELSE IF idx > 0 THEN "merge_left"
    ELSE IF idx + 1 < Len(self.children) THEN "merge_right"
    ELSE "none"

\* Every branch reads mid = children[idx] first, then the sibling at sib.
tree_case3_apply(at, self, idx, kind, mid, sibling, s) ==
    IF kind = "rotate_left" THEN tree_rotate_left(at, self, idx, mid, sibling, s)
    ELSE IF kind = "rotate_right"
    THEN tree_rotate_right(at, self, idx, mid, sibling, s)
    ELSE IF kind = "merge_left" THEN tree_merge_left(at, self, idx, mid, sibling, s)
    ELSE tree_merge_right(at, self, idx, mid, sibling, s)

tree_case3_sibling(at, self, idx, kind, mid, rs) ==
    IF rs.err THEN Fattened(TRUE, rs.s, self, idx)
    ELSE tree_case3_apply(at, self, idx, kind, mid, Unwrap(rs.node), rs.s)

tree_case3_mid(at, self, idx, kind, sib, rm) ==
    IF rm.err THEN Fattened(TRUE, rm.s, self, idx)
    ELSE tree_case3_sibling(at, self, idx, kind, Unwrap(rm.node),
                            Node_read(At(self.children, sib), rm.s))

tree_case3_fatten(at, self, idx, t, kind, s) ==
    IF kind = "none" THEN Fattened(FALSE, s, self, idx)
    ELSE tree_case3_mid(at, self, idx, kind,
             IF kind \in {"rotate_left", "merge_left"} THEN idx - 1 ELSE idx + 1,
             Node_read(At(self.children, idx), s))

\* self.children[idx].remove(k, degree): the child is read from storage and
\* the removal goes on in it.
tree_descend_read(self, idx, k, t, rd) ==
    IF rd.err THEN Erred(rd.s, self)
    ELSE tree_below(self, tree_remove(At(self.children, idx), Unwrap(rd.node),
                                      k, t, rd.s))

tree_descend(f, k, t) ==
    IF f.err THEN Erred(f.s, f.self)
    ELSE tree_descend_read(f.self, f.idx, k, t,
                           Node_read(At(f.self.children, f.idx), f.s))

\* Node::remove of tree/node.rs.
tree_remove(at, self, k, t, s) ==
    IF /\ find_index(self, k) < node_len(self)
       /\ At(self.keys, find_index(self, k)) = k
    THEN IF is_leaf(self)
         THEN tree_remove_leaf(at, self, find_index(self, k), s)
         ELSE tree_remove_internal(at, self, find_index(self, k), k, t, s)
    ELSE IF is_leaf(self) THEN Done(s, self, None)
    ELSE tree_descend(
             tree_case3_fatten(at, self, find_index(self, k), t,
                 tree_case3_kind(self, find_index(self, k), t, s), s),
             k, t)

\* BTree::remove_entry of tree/mod.rs, whose body is that of the in-memory
\* map: an emptied internal root gives way to its only child and len is
\* counted down when an entry came back; len -= 1 panics at 0.
BTree_remove_entry(r, l, k, t, s) ==
    LET rem == tree_remove(r, Stored(r, s), k, t, s)
    IN  IF rem.err \/ rem.panic \/ rem.res = None
        THEN [err |-> rem.err, panic |-> rem.panic, s |-> rem.s, root |-> r,
              len |-> l, res |-> None]
        ELSE [err |-> FALSE, panic |-> l = 0, s |-> rem.s,
              root |-> IF ~is_leaf(rem.self) /\ node_is_empty(rem.self)
                       THEN Last(rem.self.children) ELSE r,
              len |-> l - 1, res |-> rem.res]

\* The persistent tree as a state machine: root is the root identifier (0:
\* no tree), storage.data the storage, storage.failures the number of its
\* calls that failed so far, ref the reference map; last records
\* the latest call with err (it returned an error), fired (a storage call
\* failed during it) and held.  The run starts with a fresh storage; the tree
\* is made over it by with_degree, or its root by Node::new alone, the way
\* split_child makes every other node.  A caller abandons a tree whose
\* operation returned an error.
\* The storage after a call: its data, and one failure more if a call failed.
After(s) ==
    [data |-> s.data,
     failures |-> storage.failures + IF s.fired THEN 1 ELSE 0]

\* The failure schedules left to the storage.
FaultsLeft == IF storage.failures < MaxFailures THEN Faults ELSE {0}

TreeCall(op, k, v, r, exp) ==
    [op |-> op, k |-> k, v |-> v, res |-> r.res, exp |-> exp, err |-> r.err,
     fired |-> r.s.fired, held |-> r.s.held]

NoRef == [k \in DeepKeys |-> None]

Made(r) == [res |-> None, err |-> r.err, s |-> r.s]

InitTree ==
    /\ degree = DEFAULT_DEGREE
    /\ root = 0
    /\ storage = [data |-> <<>>, failures |-> 0]
    /\ last = TreeCall("storage", 0, FALSE, Made([err |-> FALSE, s |-> Run(<<>>, 0)]), None)
    /\ len = 0
    /\ panicked = FALSE
    /\ ref = NoRef
    /\ twin = [map |-> with_degree(degree), panic |-> FALSE]

\* with_degree returned r (or panicked in the drop of the handle).
TreeMade(t, r) ==
    /\ storage' = After(r.s)
    /\ last' = TreeCall("with_degree", 0, FALSE, Made(r), None)
    /\ panicked' = r.panic
    /\ root' = IF r.err \/ r.panic THEN 0 ELSE r.root
    /\ degree' = t
    /\ UNCHANGED <<len, ref, twin>>

TreeWithDegree(t, f) ==
    /\ last.op = "storage"
    /\ TreeMade(t, BTree_with_degree(Run(storage.data, f), t))

\* Node::new returned r.
RootMade(t, r) ==
    /\ storage' = After(r.s)
    /\ last' = TreeCall("Node::new", 0, FALSE, Made(r), None)
    /\ root' = IF r.err THEN 0 ELSE Unwrap(r.node).id
    /\ degree' = t
    /\ UNCHANGED <<len, ref, twin, panicked>>

TreeNodeNew(t, f) ==
    /\ last.op = "storage"
    /\ RootMade(t, Node_new(Run(storage.data, f)))

\* insert(k, v) returned r (or panicked).
TreeInserted(k, v, r) ==
    /\ storage' = After(r.s)
    /\ last' = TreeCall("insert", k, v, r, ref[k])
    /\ panicked' = r.panic
    /\ root' = r.root
    /\ len' = r.len
    /\ ref' = IF r.err \/ r.panic THEN ref ELSE [ref EXCEPT ![k] = Some(v)]
    /\ UNCHANGED degree

TreeInsert(k, v, f) ==
    /\ ~panicked
    /\ ~last.err
    /\ root # 0
    /\ len < MaxTreeKey
    /\ Len(storage.data) + 2 <= MaxIds
    /\ TreeInserted(k, v, BTree_insert(root, len, k, v, degree,
                                       Run(storage.data, f)))
    /\ UNCHANGED twin

\* remove_entry(k) returned r (or panicked).
TreeRemoved(k, r) ==
    /\ storage' = After(r.s)
    /\ last' = TreeCall("remove_entry", k, FALSE, r,
                        IF ref[k] = None THEN None ELSE Some(<<k, Unwrap(ref[k])>>))
    /\ panicked' = r.panic
    /\ root' = r.root
    /\ len' = IF r.panic THEN len ELSE r.len
    /\ ref' = IF r.err \/ r.panic THEN ref ELSE [ref EXCEPT ![k] = None]
    /\ UNCHANGED degree

TreeRemoveEntry(k, f) ==
    /\ ~panicked
    /\ ~last.err
    /\ root # 0
    /\ TreeRemoved(k, BTree_remove_entry(root, len, k, degree,
                                         Run(storage.data, f)))
    /\ UNCHANGED twin

\* Inserts take the smallest key the reference map lacks, or a key it has.
Filling(k) == \A j \in 1..(k - 1) : ref[j] # None

NextTree ==
    \/ \E t \in Degrees, f \in FaultsLeft : TreeWithDegree(t, f)
    \/ \E t \in Degrees, f \in FaultsLeft : TreeNodeNew(t, f)
    \/ \E k \in TreeKeys, f \in FaultsLeft :
          Filling(k) /\ TreeInsert(k, ValueOf(k), f)
    \/ \E k \in TreeKeys, f \in FaultsLeft : TreeRemoveEntry(k, f)

SpecTree == InitTree /\ [][NextTree]_vars

\* The node the operation computed for identifier id, if it held one.
Computed(held, id) ==
    IF \E i \in 1..Len(held) : held[i][1] = id
    THEN Some(held[CHOOSE i \in 1..Len(held) :
                       /\ held[i][1] = id
                       /\ \A j \in (i + 1)..Len(held) : held[j][1] # id][2])
    ELSE None

\* The node of identifier id as the operation left it: the computed one, the
\* stored one for a node it did not touch.
NodeView(held, id, data) ==
    IF Computed(held, id) # None THEN Unwrap(Computed(held, id))
    ELSE deserialize(Unwrap(data[id]))

\* The identifiers reachable from id, d levels down (a path has no more
\* nodes than the storage has identifiers).
RECURSIVE ReachableIds(_, _, _, _)
ReachableIds(held, id, data, d) ==
    IF d = 0 THEN {id}
    ELSE {id} \cup UNION {ReachableIds(held, c, data, d - 1) :
                            c \in Range(NodeView(held, id, data).children)}

\* C32: once split_child, insert_nonfull (and remove) have returned, every
\* node they changed is in storage under its identifier: reading any
\* identifier reachable from the root gives the node state the operation
\* computed.
C32_Persisted ==
    (last.op \in {"insert", "remove_entry"} /\ ~last.err /\ ~panicked) =>
        \A id \in ReachableIds(last.held, root, storage.data, Len(storage.data)) :
            Computed(last.held, id) # None =>
                storage.data[id] = Some(serialize(Unwrap(Computed(last.held, id))))

\* C33: a storage failure at any step of insert_nonfull (split_child of the
\* descent included) or remove comes back to the caller as an error value; it
\* is not ignored and not turned into a panic.
C33_FailureSurfaces ==
    (last.op \in {"insert", "remove_entry"} /\ last.fired) =>
        (last.err /\ ~panicked)

\* C34: every node is stored under the identifier its payload carries, the
\* root made by with_degree included (the root identifier of the tree is the
\* id inside the root node), and no identifier serves two nodes.
C34_StoredUnderOwnId ==
    /\ \A id \in 1..Len(storage.data) :
          storage.data[id] # None => deserialize(Unwrap(storage.data[id])).id = id
    /\ (root # 0 /\ storage.data[root] # None) =>
          deserialize(Unwrap(storage.data[root])).id = root
    /\ \A id1, id2 \in 1..Len(storage.data) :
          (/\ id1 # id2
           /\ storage.data[id1] # None
           /\ storage.data[id2] # None)
             => deserialize(Unwrap(storage.data[id1])).id
                    # deserialize(Unwrap(storage.data[id2])).id

====
